---- MODULE Spec2Model ----
(***************************************************************************)
(* The travel-agent workflow engine: the retrying LLM call wrapper         *)
(* (BaseAgent._call_llm), the four agents (Planner, Researcher, Executor,  *)
(* Validator), the linear LangGraph pipeline of TravelAgentOrchestrator    *)
(* and the operation log of TravelAgentLogger; and the background bridge   *)
(* of the Streamlit script app.py (worker thread, result queue, session    *)
(* state).                                                                 *)
(*                                                                         *)
(* Time is counted in hundredths of a second, so that the 10% jitter of a  *)
(* delay is a whole number.                                                *)
(***************************************************************************)
EXTENDS Integers, Sequences, FiniteSets, TLC

VARIABLES
    pc,             \* where process_query is: "idle", the node about to run, "returned", "raised"
    state,          \* the TravelAgentState threaded through the graph
    result,         \* what the top-level call gave its caller: nothing yet, a value, or an exception
    llm,            \* the frame of the running _call_llm (site = "none" when no call is running)
    planLocal,      \* PlannerAgent.execute's local `plan` between its two calls
    logs,           \* TravelAgentLogger.logs
    stagesRun,      \* history: the agents whose execute() was entered, in order
    attempts,       \* history: llm.invoke calls made by the running _call_llm
    sleeps,         \* history: the sleeps of the running _call_llm, [delay, jitter] each
    errs,           \* history: str(e) of the failed attempts of the running _call_llm
    calls,          \* history: the _call_llm invocations that have ended, and how
    externalCalls,  \* history: llm.invoke calls since the top-level call started
    wrapperCalls,   \* history: _call_llm invocations since the top-level call started
    failures,       \* how many llm.invoke calls have failed so far in this behaviour
    script,         \* where the session's script run (app.py main) is: "top" or "input"
    session,        \* st.session_state: the processing_* fields, messages, conversation_history
    queue,          \* st.session_state.processing_queue: the messages put and not yet taken
    threads,        \* the worker threads started so far, in order: position, arguments, locals
    notice,         \* what the script run showed last about the background task
    submitted,      \* history: the prompts submitted, and whether each started a worker
    summary,        \* the frame of a running get_log_summary, and what it returned
    fetched         \* a get_logs call made: its arguments, the log it read, what it returned

\* the state of the background bridge of app.py
bridgeVars == <<script, session, queue, threads, notice, submitted>>

\* the state of one process_query or one _call_llm
pipelineVars == <<pc, state, result, llm, planLocal, logs, stagesRun, attempts, sleeps,
                  errs, calls, externalCalls, wrapperCalls, failures>>

\* the readers of the log
readerVars == <<summary, fetched>>

vars == <<pc, state, result, llm, planLocal, logs, stagesRun, attempts, sleeps, errs,
          calls, externalCalls, wrapperCalls, failures, script, session, queue, threads,
          notice, submitted, summary, fetched>>

(***************************************************************************)
(* Configuration (travel_agent.core.config): retry settings.               *)
(***************************************************************************)
MAX_RETRIES == 2
INITIAL_RETRY_DELAY == 100
MAX_RETRY_DELAY == 150
RETRY_BACKOFF_MULTIPLIER == 2

(***************************************************************************)
(* Bounds of the model.                                                    *)
(***************************************************************************)
\* failed llm.invoke calls the service may produce in one behaviour of the pipeline
MaxFailures == 3

(***************************************************************************)
(* Text helpers: Python's str.lower(), `in`, slicing and split.            *)
(***************************************************************************)
Min(a, b) == IF a <= b THEN a ELSE b

\* str.lower() on one character (the capital letters the messages below use)
LowerOf ==
    [c \in {"A", "B", "D", "E", "I", "K", "L", "M", "O", "P", "Q", "R", "S", "T", "U", "X"} |->
        CASE c = "A" -> "a" [] c = "B" -> "b" [] c = "D" -> "d" [] c = "E" -> "e"
          [] c = "I" -> "i" [] c = "K" -> "k" [] c = "L" -> "l" [] c = "M" -> "m"
          [] c = "O" -> "o" [] c = "P" -> "p" [] c = "Q" -> "q" [] c = "R" -> "r"
          [] c = "S" -> "s" [] c = "T" -> "t" [] c = "U" -> "u" [] c = "X" -> "x"]

LowerChar(c) == IF c \in DOMAIN LowerOf THEN LowerOf[c] ELSE c

\* str.lower() from the i-th character on
RECURSIVE LowerFrom(_, _)
LowerFrom(s, i) ==
    IF i > Len(s) THEN ""
    ELSE LowerChar(SubSeq(s, i, i)) \o LowerFrom(s, i + 1)

Lower(s) == LowerFrom(s, 1)

\* Python's `sub in s` (s is evaluated once, as the operand of `in` is)
Contains(sub, s) ==
    \E t \in {s} : \E i \in 1..(Len(t) - Len(sub) + 1) : SubSeq(t, i, i + Len(sub) - 1) = sub

\* Python's s[:n]
Prefix(s, n) == SubSeq(s, 1, Min(n, Len(s)))

\* Python's seq[-n:]
LastN(seq, n) == SubSeq(seq, IF Len(seq) > n THEN Len(seq) - n + 1 ELSE 1, Len(seq))

\* Python's len(s.split(sep)), for a separator that cannot overlap itself
SplitCount(s, sep) ==
    1 + Cardinality({i \in 1..(Len(s) - Len(sep) + 1) : SubSeq(s, i, i + Len(sep) - 1) = sep})

RECURSIVE Join(_, _)
Join(sep, parts) ==
    IF Len(parts) = 0 THEN ""
    ELSE IF Len(parts) = 1 THEN parts[1]
    ELSE parts[1] \o sep \o Join(sep, Tail(parts))

(***************************************************************************)
(* The operation log (TravelAgentLogger).                                  *)
(***************************************************************************)
\* duration is "none" when the caller passes no duration, "timed" otherwise
LogEntry(agent, operation, details, status, duration) ==
    [agent |-> agent, operation |-> operation, details |-> details,
     status |-> status, duration |-> duration]

\* the entry put in front of the log
log_operation_prepending(log, agent, operation, details, status, duration) ==
    <<LogEntry(agent, operation, details, status, duration)>> \o log

log_operation(log, agent, operation, details, status, duration) ==
    Append(log, LogEntry(agent, operation, details, status, duration))

log_llm_call(log, agent, prompt_length, response_length) ==
    log_operation(log, agent, "LLM Call",
        "Prompt: " \o ToString(prompt_length) \o " chars, Response: "
            \o ToString(response_length) \o " chars",
        "info", "timed")

log_state_transition(log, from_agent, to_agent, state_summary) ==
    log_operation(log, "Orchestrator",
        "State Transition: " \o from_agent \o " -> " \o to_agent,
        state_summary, "info", "none")

(***************************************************************************)
(* Inputs: user queries, conversation histories, what the generative       *)
(* service answers and the errors it raises (str(e) of each).              *)
(***************************************************************************)
Queries == {"", "rome"}

Msg(role, content) == [role |-> role, content |-> content]

Histories ==
    { <<>>,
      << Msg("user", "m1"), Msg("assistant", "m2"), Msg("user", "m3"),
         Msg("assistant", "m4"), Msg("user", "m5"), Msg("assistant", "m6") >> }

\* a chat message object (has .content), a plain str, or any other object;
\* str is what str(response) gives
MessageResponse(t) == [has_content |-> TRUE, content |-> t, is_str |-> FALSE,
                       str |-> "content='" \o t \o "'"]
StrResponse(t) == [has_content |-> FALSE, content |-> "", is_str |-> TRUE, str |-> t]
OtherResponse(t) == [has_content |-> FALSE, content |-> "", is_str |-> FALSE, str |-> t]

Responses ==
    { MessageResponse(""), MessageResponse("x\ny"), StrResponse("x\ny"), OtherResponse("obj") }

\* the responses the pipeline is run against
PipelineResponses == { MessageResponse(""), MessageResponse("x\ny") }

RateLimitMessages ==
    { "429 Too Many Requests", "Resource Exhausted", "Quota exceeded",
      "Rate limit reached", "Too Many Requests" }

TransientMessages ==
    { "503 Service Unavailable", "500 Internal Server Error", "Timeout", "Deadline Exceeded" }

FatalMessages == { "Invalid API key", "400 Bad Request" }

Errors == RateLimitMessages \cup TransientMessages \cup FatalMessages

\* an answer of the Execute stage's call that differs from every plan
ItineraryResponses == { MessageResponse("z") }

\* the errors the pipeline is run against: one that is retried, one that is not
PipelineErrors == { "429 Too Many Requests", "Invalid API key" }

(***************************************************************************)
(* BaseAgent: the agents' names and system prompts, and _call_llm.         *)
(***************************************************************************)
Agents == {"Planner", "Researcher", "Executor", "Validator"}

system_prompt(agent) == "SYS:" \o agent

NoCall == [site |-> "none", agent |-> "", prompt |-> "", full_prompt |-> "",
           attempt |-> 0, retry_delay |-> 0, last_exception |-> "None"]

\* _call_llm up to the first llm.invoke: the frame and the log
EnterCall(site, agent, prompt) ==
    [site |-> site, agent |-> agent, prompt |-> prompt,
     full_prompt |-> system_prompt(agent) \o "\n\n" \o prompt,
     attempt |-> 0, retry_delay |-> INITIAL_RETRY_DELAY, last_exception |-> "None"]

\* the call's first event logged under the orchestrator's name
LogCallStartedAsOrchestrator(log, agent, prompt) ==
    log_operation(log, "Orchestrator", "LLM Call Started",
        "Prompt length: " \o ToString(Len(prompt)) \o " characters", "info", "none")

LogCallStarted(log, agent, prompt) ==
    log_operation(log, agent, "LLM Call Started",
        "Prompt length: " \o ToString(Len(prompt)) \o " characters", "info", "none")

\* str(response) taken whatever the response is
ResponseTextAlwaysStr(response) == response.str

ResponseText(response) ==
    IF response.has_content THEN response.content
    ELSE IF response.is_str THEN response.str
    ELSE response.str

LogCallSucceeded(log, f, response_text) ==
    IF f.attempt > 0
    THEN log_operation(log, f.agent, "LLM Call Succeeded After Retry",
             "Attempt " \o ToString(f.attempt + 1) \o " succeeded", "success", "timed")
    ELSE log_llm_call(log, f.agent, Len(f.full_prompt), Len(response_text))

is_rate_limit(e) ==
    LET error_str == Lower(e) IN
        \/ Contains("429", error_str)
        \/ Contains("resource exhausted", error_str)
        \/ Contains("quota exceeded", error_str)
        \/ Contains("rate limit", error_str)
        \/ Contains("too many requests", error_str)

\* is_retryable without the 5xx markers
is_retryable_without_5xx(e) ==
    LET error_str == Lower(e) IN
        \/ is_rate_limit(e)
        \/ Contains("timeout", error_str)
        \/ Contains("deadline exceeded", error_str)

is_retryable(e) ==
    LET error_str == Lower(e) IN
        \/ is_rate_limit(e)
        \/ Contains("503", error_str)
        \/ Contains("500", error_str)
        \/ Contains("timeout", error_str)
        \/ Contains("deadline exceeded", error_str)

LogAttemptError(log, f, e) ==
    LET details == "Attempt " \o ToString(f.attempt + 1) \o "/" \o ToString(MAX_RETRIES + 1)
                       \o ": " \o e
    IN  IF is_rate_limit(e)
        THEN log_operation(log, f.agent, "Rate Limit Error (429)", details, "warning", "timed")
        ELSE log_operation(log, f.agent, "LLM Call Error", details,
                 IF ~is_retryable(e) THEN "error" ELSE "warning", "timed")

\* the exit test without its retryability half
StopsRetryingOnLastAttemptOnly(f, e) == f.attempt >= MAX_RETRIES

\* the loop left on a fatal error only, however many attempts were made
StopsRetryingOnFatalOnly(f, e) == ~is_retryable(e)

\* the loop running once more than MAX_RETRIES + 1 times
StopsRetryingOneAttemptLater(f, e) == f.attempt >= MAX_RETRIES + 1 \/ ~is_retryable(e)

\* the loop's exit test after a failed attempt
StopsRetrying(f, e) == f.attempt >= MAX_RETRIES \/ ~is_retryable(e)

BackoffDelay(f) == Min(f.retry_delay, MAX_RETRY_DELAY)

\* random.uniform(0, delay * 0.1), sampled at its two ends
JitterChoices(delay) == {0, delay \div 10}

LogRetrying(log, f, total_delay) ==
    log_operation(log, f.agent, "Retrying LLM Call",
        "Waiting " \o ToString(total_delay) \o "cs before retry " \o ToString(f.attempt + 2)
            \o "/" \o ToString(MAX_RETRIES + 1), "info", "none")

\* the delay grown by addition instead of multiplication
NextRetryDelayAdditive(f) == f.retry_delay + RETRY_BACKOFF_MULTIPLIER

NextRetryDelay(f) == f.retry_delay * RETRY_BACKOFF_MULTIPLIER

\* the code after the loop: the report and the exception raised
ExhaustedMessage(last_exception) ==
    "LLM call failed after " \o ToString(MAX_RETRIES + 1) \o " attempts: " \o last_exception

LogExhausted(log, f, last_exception) ==
    log_operation(log, f.agent, "LLM Call Failed - All Retries Exhausted",
        ExhaustedMessage(last_exception), "error", "timed")

\* the rate-limit failure raised for a quota message as well
RaisesRateLimitErrorOnQuota(last_exception) ==
    \/ Contains("429", last_exception)
    \/ Contains("resource exhausted", Lower(last_exception))
    \/ Contains("quota exceeded", Lower(last_exception))

RaisesRateLimitError(last_exception) ==
    Contains("429", last_exception) \/ Contains("resource exhausted", Lower(last_exception))

RaisedException(last_exception) ==
    IF RaisesRateLimitError(last_exception)
    THEN [type |-> "RateLimitError",
          msg |-> "API rate limit exceeded. Please wait a moment and try again. "
                    \o "The system attempted " \o ToString(MAX_RETRIES + 1)
                    \o " times with exponential backoff."]
    ELSE [type |-> "Exception",
          msg |-> "Failed to get response from LLM: " \o last_exception]

(***************************************************************************)
(* The agents' execute(): prompts, results and log lines.                  *)
(***************************************************************************)
\* PlannerAgent.execute: the context built from the last five messages
PlannerContext(conversation_history) ==
    LET last == LastN(conversation_history, 5) IN
        Join("\n", [i \in 1..Len(last) |-> last[i].role \o ": " \o last[i].content])

PlannerPrompt(context, user_query) ==
    "Create a travel plan:\n\n" \o context \o "\n\nCurrent Request: " \o user_query

ResearchTasksPrompt(plan) == "Extract research tasks:\n\n" \o plan

PlannerResult(plan, research_tasks) ==
    [plan |-> plan, research_tasks |-> research_tasks, status |-> "plan_created",
     agent |-> "Planner"]

ResearcherPrompt(plan, research_tasks, user_query) ==
    "Travel Plan:\n" \o plan \o "\n\nResearch Tasks:\n" \o research_tasks
        \o "\n\nUser Query:\n" \o user_query

\* the empty-tasks test never taken
ResearcherNeverSkips(st) == FALSE

ResearcherSkips(st) == st.research_tasks = ""

ResearcherNoTasks ==
    [research_results |-> "No research tasks provided.", status |-> "no_tasks",
     agent |-> "Researcher"]

ResearcherResult(research_results) ==
    [research_results |-> research_results, status |-> "research_completed",
     agent |-> "Researcher"]

ExecutorPrompt(plan, research_results, user_query) ==
    "Travel Plan:\n" \o plan \o "\n\nResearch Results:\n" \o research_results
        \o "\n\nUser Query:\n" \o user_query

ExecutorResult(final_itinerary) ==
    [final_itinerary |-> final_itinerary, status |-> "execution_completed",
     agent |-> "Executor"]

\* the plan validated whenever there is one
content_to_validate_plan_first(st) ==
    IF st.plan # "" THEN st.plan ELSE st.final_itinerary

content_to_validate(st) ==
    IF st.final_itinerary # "" THEN st.final_itinerary ELSE st.plan

\* the empty-content test never taken
ValidatorNeverSkips(st) == FALSE

\* the empty-content test on the itinerary alone
ValidatorSkipsWithoutItinerary(st) == st.final_itinerary = ""

ValidatorSkips(st) == content_to_validate(st) = ""

ValidatorPrompt(content, user_query) ==
    "Review and validate:\n\n" \o content \o "\n\nOriginal User Query:\n" \o user_query

ValidatorNoContent ==
    [validation |-> "No content to validate.", status |-> "no_content",
     agent |-> "Validator"]

ValidatorResult(validation) ==
    [validation |-> validation, status |-> "validation_completed", agent |-> "Validator"]

(***************************************************************************)
(* TravelAgentOrchestrator: the state, the nodes' updates, the graph.      *)
(***************************************************************************)
InitialState(user_query, conversation_history) ==
    [user_query |-> user_query, conversation_history |-> conversation_history,
     plan |-> "", research_tasks |-> "", research_results |-> "",
     final_itinerary |-> "", validation |-> "", status |-> "initialized",
     current_agent |-> "", iteration |-> 0]

\* the update replacing the state: the keys a node does not return fall back to empty
MergeReplacing(st, update) ==
    [k \in DOMAIN st |-> IF k \in DOMAIN update THEN update[k]
                         ELSE InitialState("", <<>>)[k]]

\* LangGraph merges a node's returned keys into the state, one value per key
Merge(st, update) ==
    [k \in DOMAIN st |-> IF k \in DOMAIN update THEN update[k] ELSE st[k]]

\* the planner's update counting itself twice
planner_node_update_counting_twice(st, res) ==
    [plan |-> res.plan, research_tasks |-> res.research_tasks, status |-> res.status,
     current_agent |-> "planner", iteration |-> st.iteration + 2]

planner_node_update(st, res) ==
    [plan |-> res.plan, research_tasks |-> res.research_tasks, status |-> res.status,
     current_agent |-> "planner", iteration |-> st.iteration + 1]

\* the researcher's update naming the agent as the agent's result does
researcher_node_update_naming_agent(st, res) ==
    [research_results |-> res.research_results, status |-> res.status,
     current_agent |-> res.agent, iteration |-> st.iteration + 1]

researcher_node_update(st, res) ==
    [research_results |-> res.research_results, status |-> res.status,
     current_agent |-> "researcher", iteration |-> st.iteration + 1]

executor_node_update(st, res) ==
    [final_itinerary |-> res.final_itinerary, status |-> res.status,
     current_agent |-> "executor", iteration |-> st.iteration + 1]

\* the validator's update without the iteration count
validator_node_update_keeping_iteration(st, res) ==
    [validation |-> res.validation, status |-> res.status, current_agent |-> "validator",
     iteration |-> st.iteration]

\* the validator's update without its status
validator_node_update_keeping_status(st, res) ==
    [validation |-> res.validation, status |-> st.status,
     current_agent |-> "validator", iteration |-> st.iteration + 1]

validator_node_update(st, res) ==
    [validation |-> res.validation, status |-> res.status,
     current_agent |-> "validator", iteration |-> st.iteration + 1]

\* _build_graph: the entry point and the edges
EntryPoint == "planner"

\* the graph with the planner's edge going to the executor
NextNodeSkippingResearcher(node) ==
    CASE node = "planner" -> "executor"
      [] node = "researcher" -> "executor"
      [] node = "executor" -> "validator"
      [] node = "validator" -> "END"

\* the graph ending after the researcher
NextNodeEndingAfterResearcher(node) ==
    CASE node = "planner" -> "researcher"
      [] node = "researcher" -> "END"
      [] node = "executor" -> "validator"
      [] node = "validator" -> "END"

NextNode(node) ==
    CASE node = "planner" -> "researcher"
      [] node = "researcher" -> "executor"
      [] node = "executor" -> "validator"
      [] node = "validator" -> "END"

NoException == [type |-> "", msg |-> ""]

NoResult == [kind |-> "none", value |-> "", exc |-> NoException]

Returned(value) == [kind |-> "returned", value |-> value, exc |-> NoException]

Raised(exc) == [kind |-> "raised", value |-> "", exc |-> exc]

(***************************************************************************)
(* app.py: the session state, the worker's messages, the script's          *)
(* rendering of a result.  The emoji of the texts are left out.            *)
(***************************************************************************)
\* Python's None and a value that is not None
None == <<>>

Some(v) == <<v>>

\* the session-state defaults set when the script first runs
InitialSession ==
    [processing |-> FALSE, processing_query |-> None, processing_result |-> None,
     processing_error |-> None, processing_thread |-> 0, messages |-> <<>>,
     conversation_history |-> <<>>]

\* app.invoke(initial_state) as a function of the texts the five wrapper calls return
WorkflowResult(user_query, conversation_history, texts) ==
    LET s0 == InitialState(user_query, conversation_history)
        s1 == Merge(s0, planner_node_update(s0, PlannerResult(texts.plan, texts.tasks)))
        s2 == Merge(s1, researcher_node_update(s1,
                  IF ResearcherSkips(s1) THEN ResearcherNoTasks
                  ELSE ResearcherResult(texts.research)))
        s3 == Merge(s2, executor_node_update(s2, ExecutorResult(texts.execute)))
    IN  Merge(s3, validator_node_update(s3,
            IF ValidatorSkips(s3) THEN ValidatorNoContent
            ELSE ValidatorResult(texts.validate)))

\* the errors of the attempts of a _call_llm that raises: all but the last are retried
FailedCall(es) ==
    \A k \in DOMAIN es : StopsRetrying([attempt |-> k - 1], es[k]) <=> k = Len(es)

\* the exception classes `except Exception` does not catch are not raised by the workflow
ExceptionClasses == {"Exception", "RateLimitError", "ValueError"}

\* the handler that takes everything but a rate-limit failure
WorkerCatchesRateLimitOnly(exc) == exc.type = "RateLimitError"

\* process_query_in_background: except Exception
WorkerCatches(exc) == exc.type \in ExceptionClasses

RateLimitGuidance(msg) ==
    "**Rate Limit Error**\n\n" \o msg \o "\n\n**Suggestions:**\n"
        \o "- Wait a few moments before trying again\n"
        \o "- The system will automatically retry with delays\n"
        \o "- Consider breaking your request into smaller parts"

GenericErrorMessage(msg) ==
    "**Error:** " \o msg \o "\n\nPlease try again or rephrase your request."

error_msg(exc) ==
    IF exc.type = "RateLimitError" THEN RateLimitGuidance(exc.msg)
    ELSE GenericErrorMessage(exc.msg)

SuccessMessage(res) == [type |-> "success", result |-> res]

ErrorMessage(exc) == [type |-> "error", error |-> error_msg(exc)]

\* the thread started without the history of the conversation
NewThreadWithoutHistory(query, conversation_history) ==
    [pos |-> "started", query |-> query, conversation_history |-> <<>>,
     result |-> None, exc |-> NoException, errors |-> <<>>, put |-> <<>>]

\* threading.Thread(target=process_query_in_background, args=...) once started
NewThread(query, conversation_history) ==
    [pos |-> "started", query |-> query, conversation_history |-> conversation_history,
     result |-> None, exc |-> NoException, errors |-> <<>>, put |-> <<>>]

\* Thread.is_alive(): from start() until the target has returned or raised
is_alive(thread) == thread.pos \notin {"ended", "escaped"}

\* the submission taken whatever the stored thread does
AcceptsAlways(s, ths) == TRUE

\* the test that lets a submission start a worker
AcceptsSubmission(s, ths) ==
    s.processing_thread = 0 \/ ~is_alive(ths[s.processing_thread])

\* the queue read without taking the message
DrainNothing(q) == q

\* processing_queue after the poll: get_nowait() when it is not empty
Drain(q) == IF q = <<>> THEN q ELSE Tail(q)

\* the poll at the top of the script run
Poll(s, q) ==
    IF q = <<>> THEN s
    ELSE LET queue_result == Head(q) IN
        IF queue_result.type = "success"
        THEN [s EXCEPT !.processing_result = Some(queue_result.result),
                       !.processing = FALSE]
        ELSE IF queue_result.type = "error"
        THEN [s EXCEPT !.processing_error = Some(queue_result.error),
                       !.processing = FALSE]
        ELSE s

\* the words that make the validation text the next steps, when it has no
\* "next steps" heading (the texts of this model have none)
NextStepsKeywords == {"improvement", "suggest", "recommend", "next", "enhance", "refine"}

NextStepsText(res) ==
    IF res.validation # "" /\ \E w \in NextStepsKeywords : Contains(w, Lower(res.validation))
    THEN res.validation
    ELSE ""

FallbackSteps == "\n**To make your travel plan even more promising, consider:**\n"

\* the assistant message built from a result
FullResponse(res) ==
    LET parts ==
            (IF res.plan # "" THEN <<"## Travel Plan\n\n" \o res.plan>> ELSE <<>>)
            \o (IF res.research_results # ""
                THEN <<"## Research Results\n\n" \o res.research_results>> ELSE <<>>)
            \o (IF res.final_itinerary # ""
                THEN <<"## Final Travel Itinerary\n\n" \o res.final_itinerary>> ELSE <<>>)
            \o (IF res.validation # ""
                THEN <<"## Validation & Next Steps\n\n" \o res.validation>> ELSE <<>>)
            \o <<"## Next Steps for Improvement\n\n"
                    \o (IF NextStepsText(res) # "" THEN NextStepsText(res)
                        ELSE FallbackSteps)>>
    IN  CHOOSE full_response \in { Join("\n\n---\n\n", ps) : ps \in {parts} } : TRUE

\* an assistant message appended unless one with the same content is there
AppendAssistantOnce(s, content) ==
    IF \E i \in DOMAIN s.messages :
           s.messages[i].role = "assistant" /\ s.messages[i].content = content
    THEN s
    ELSE [s EXCEPT !.messages = Append(@, Msg("assistant", content)),
                   !.conversation_history = Append(@, Msg("assistant", content))]

\* the result block leaving the session marked as processing
ShowResultStillProcessing(s) ==
    [AppendAssistantOnce(s, FullResponse(s.processing_result[1]))
        EXCEPT !.processing = TRUE, !.processing_query = None,
               !.processing_result = None]

\* the script's block for a pending result, up to its st.rerun()
ShowResult(s) ==
    CHOOSE shown \in { [AppendAssistantOnce(s, full_response)
                            EXCEPT !.processing = FALSE, !.processing_query = None,
                                   !.processing_result = None] :
                        full_response \in {FullResponse(s.processing_result[1])} } : TRUE

\* the script's block for a pending error, up to its st.rerun()
ShowError(s) ==
    [AppendAssistantOnce(s, s.processing_error[1])
        EXCEPT !.processing_error = None, !.processing = FALSE,
               !.processing_query = None]

\* the indicator never shown, the script going on to the chat input
ShowsIndicatorNever(s) == FALSE

\* the test of the processing indicator, which sleeps and reruns the script
ShowsIndicator(s) ==
    s.processing /\ s.processing_query # None /\ s.processing_query[1] # ""

(***************************************************************************)
(* TravelAgentLogger's readers: get_logs and get_log_summary.              *)
(***************************************************************************)
\* Python's truth value of an optional argument: None, "" and 0 are false
TruthyText(arg) == arg # None /\ arg[1] # ""

TruthyNumber(arg) == arg # None /\ arg[1] # 0

\* the entries of one agent, in the log's order
OfAgent(log, a) == SelectSeq(log, LAMBDA entry : entry.agent = a)

\* get_logs(agent, limit): an argument left out is None
get_logs(log, agent, limit) ==
    LET filtered == IF TruthyText(agent) THEN OfAgent(log, agent[1]) ELSE log
    IN  IF TruthyNumber(limit) THEN LastN(filtered, limit[1]) ELSE filtered

\* a dict of counts, and d[k] = d.get(k, 0) + 1
NoCounts == [k \in {} |-> 0]

CountOne(d, k) ==
    [x \in DOMAIN d \cup {k} |->
        (IF x \in DOMAIN d THEN d[x] ELSE 0) + (IF x = k THEN 1 ELSE 0)]

\* what get_log_summary returns for an empty log
EmptySummary == [total |-> 0, by_agent |-> NoCounts, by_status |-> NoCounts]

\* no get_log_summary running: pos is "idle", then "loop", "after_loop", "done"
NoSummary ==
    [pos |-> "idle", index |-> 0, by_agent |-> NoCounts, by_status |-> NoCounts,
     out |-> None]

Init ==
    /\ pc = "idle"
    /\ state = InitialState("", <<>>)
    /\ result = NoResult
    /\ llm = NoCall
    /\ planLocal = ""
    /\ logs = <<>>
    /\ stagesRun = <<>>
    /\ attempts = 0
    /\ sleeps = <<>>
    /\ errs = <<>>
    /\ calls = <<>>
    /\ externalCalls = 0
    /\ wrapperCalls = 0
    /\ failures = 0
    /\ script = "top"
    /\ session = InitialSession
    /\ queue = <<>>
    /\ threads = <<>>
    /\ notice = "none"
    /\ submitted = <<>>
    /\ summary = NoSummary
    /\ fetched = None

(***************************************************************************)
(* Steps.  A step runs the code from one llm.invoke (or from the call of   *)
(* process_query) up to the next llm.invoke, or to the end of the node,    *)
(* or to the return or raise of the top-level call.                        *)
(***************************************************************************)
\* _call_llm is entered: its frame, its first log line, the history of the call
StartCall(site, agent, prompt, log) ==
    /\ llm' = EnterCall(site, agent, prompt)
    /\ logs' = LogCallStarted(log, agent, prompt)
    /\ attempts' = 0
    /\ sleeps' = <<>>
    /\ errs' = <<>>
    /\ wrapperCalls' = wrapperCalls + 1

\* no _call_llm is running after this step
EndCall ==
    /\ attempts' = 0
    /\ sleeps' = <<>>
    /\ errs' = <<>>

\* process_query's tail once app.invoke has returned the final state
LogWorkflowCompleted(log, final_state) ==
    log_operation(log, "Orchestrator", "Workflow Completed",
        "Total duration: <t>s, Iterations: " \o ToString(final_state.iteration),
        "success", "timed")

\* a node returns its update: the graph merges it and follows the node's edge
FinishNode(node, update, log) ==
    /\ state' = Merge(state, update)
    /\ llm' = NoCall
    /\ IF NextNode(node) = "END"
       THEN /\ pc' = "returned"
            /\ result' = Returned(state')
            /\ logs' = LogWorkflowCompleted(log, state')
       ELSE /\ pc' = NextNode(node)
            /\ result' = result
            /\ logs' = log

process_query(user_query, conversation_history) ==
    /\ pc = "idle"
    /\ logs' = log_operation(logs, "Orchestrator", "Workflow Started",
                   "Processing query: " \o Prefix(user_query, 100), "info", "none")
    /\ state' = InitialState(user_query, conversation_history)
    /\ pc' = EntryPoint
    /\ UNCHANGED <<result, llm, planLocal, stagesRun, attempts, sleeps, errs, calls,
                   externalCalls, wrapperCalls, failures>>
    /\ UNCHANGED <<bridgeVars, readerVars>>

\* what _planner_node and PlannerAgent.execute log before the first _call_llm
LogPlanningStarted(log, st) ==
    LET context == PlannerContext(st.conversation_history)
        log1 == log_state_transition(log, "Orchestrator", "Planner",
                    "Starting planning phase")
        log2 == log_operation(log1, "Planner", "Execution Started",
                    "Processing user query: " \o Prefix(st.user_query, 100),
                    "info", "none")
    IN  log_operation(log2, "Planner", "Creating Travel Plan",
            "Context length: " \o ToString(Len(context)) \o " chars, History items: "
                \o ToString(Len(st.conversation_history)), "info", "none")

\* _planner_node and PlannerAgent.execute up to the first llm.invoke
PlannerStart ==
    /\ pc = "planner" /\ llm.site = "none"
    /\ StartCall("plan", "Planner",
                 PlannerPrompt(PlannerContext(state.conversation_history), state.user_query),
                 LogPlanningStarted(logs, state))
    /\ stagesRun' = Append(stagesRun, "planner")
    /\ UNCHANGED <<pc, state, result, planLocal, calls, externalCalls, failures>>
    /\ UNCHANGED <<bridgeVars, readerVars>>

\* _researcher_node and ResearcherAgent.execute with no research tasks
ResearcherShortCircuit ==
    /\ pc = "researcher" /\ llm.site = "none"
    /\ ResearcherSkips(state)
    /\ LET log1 == log_state_transition(logs, "Planner", "Researcher",
                       "Starting research phase")
           log2 == log_operation(log1, "Researcher", "Execution Started",
                       "Research tasks: 0 items", "info", "none")
           log3 == log_operation(log2, "Researcher", "No Research Tasks",
                       "Skipping research - no tasks provided", "warning", "none")
           log4 == log_state_transition(log3, "Researcher", "Executor",
                       "Research completed, moving to execution")
       IN  FinishNode("researcher", researcher_node_update(state, ResearcherNoTasks), log4)
    /\ stagesRun' = Append(stagesRun, "researcher")
    /\ UNCHANGED <<planLocal, attempts, sleeps, errs, calls, externalCalls, wrapperCalls,
                   failures>>
    /\ UNCHANGED <<bridgeVars, readerVars>>

\* _researcher_node and ResearcherAgent.execute up to llm.invoke
ResearcherStart ==
    /\ pc = "researcher" /\ llm.site = "none"
    /\ ~ResearcherSkips(state)
    /\ LET items == ToString(SplitCount(state.research_tasks, "\n"))
           log1 == log_state_transition(logs, "Planner", "Researcher",
                       "Starting research phase")
           log2 == log_operation(log1, "Researcher", "Execution Started",
                       "Research tasks: " \o items \o " items", "info", "none")
           log3 == log_operation(log2, "Researcher", "Conducting Research",
                       "Researching " \o items \o " tasks", "info", "none")
       IN  StartCall("research", "Researcher",
               ResearcherPrompt(state.plan, state.research_tasks, state.user_query), log3)
    /\ stagesRun' = Append(stagesRun, "researcher")
    /\ UNCHANGED <<pc, state, result, planLocal, calls, externalCalls, failures>>
    /\ UNCHANGED <<bridgeVars, readerVars>>

\* _executor_node and ExecutorAgent.execute up to llm.invoke
ExecutorStart ==
    /\ pc = "executor" /\ llm.site = "none"
    /\ LET log1 == log_state_transition(logs, "Researcher", "Executor",
                       "Starting execution phase")
           log2 == log_operation(log1, "Executor", "Execution Started",
                       "Synthesizing plan (" \o ToString(Len(state.plan))
                           \o " chars) and research ("
                           \o ToString(Len(state.research_results)) \o " chars)",
                       "info", "none")
       IN  StartCall("execute", "Executor",
               ExecutorPrompt(state.plan, state.research_results, state.user_query), log2)
    /\ stagesRun' = Append(stagesRun, "executor")
    /\ UNCHANGED <<pc, state, result, planLocal, calls, externalCalls, failures>>
    /\ UNCHANGED <<bridgeVars, readerVars>>

LogValidationStarted(log, st) ==
    log_operation(log_state_transition(log, "Executor", "Validator",
                      "Starting validation phase"),
        "Validator", "Validation Started",
        "Validating " \o (IF st.final_itinerary # "" THEN "final itinerary" ELSE "plan")
            \o " (" \o ToString(Len(content_to_validate(st))) \o " chars)", "info", "none")

\* _validator_node and ValidatorAgent.execute with nothing to validate
ValidatorShortCircuit ==
    /\ pc = "validator" /\ llm.site = "none"
    /\ ValidatorSkips(state)
    /\ LET log1 == LogValidationStarted(logs, state)
           log2 == log_operation(log1, "Validator", "No Content to Validate",
                       "Skipping validation - no content provided", "warning", "none")
           log3 == log_state_transition(log2, "Validator", "END",
                       "Validation completed, workflow finished")
       IN  FinishNode("validator", validator_node_update(state, ValidatorNoContent), log3)
    /\ stagesRun' = Append(stagesRun, "validator")
    /\ UNCHANGED <<planLocal, attempts, sleeps, errs, calls, externalCalls, wrapperCalls,
                   failures>>
    /\ UNCHANGED <<bridgeVars, readerVars>>

\* _validator_node and ValidatorAgent.execute up to llm.invoke
ValidatorStart ==
    /\ pc = "validator" /\ llm.site = "none"
    /\ ~ValidatorSkips(state)
    /\ StartCall("validate", "Validator",
           ValidatorPrompt(content_to_validate(state), state.user_query),
           LogValidationStarted(logs, state))
    /\ stagesRun' = Append(stagesRun, "validator")
    /\ UNCHANGED <<pc, state, result, planLocal, calls, externalCalls, failures>>
    /\ UNCHANGED <<bridgeVars, readerVars>>

\* a test or a script calls agent._call_llm(prompt) itself
DirectCall(agent, prompt) ==
    /\ pc = "idle"
    /\ pc' = "direct"
    /\ StartCall("direct", agent, prompt, logs)
    /\ UNCHANGED <<state, result, planLocal, stagesRun, calls, externalCalls, failures>>
    /\ UNCHANGED <<bridgeVars, readerVars>>

\* the _call_llm that ends with this step, for the history
NoResponse == [has_content |-> FALSE, content |-> "", is_str |-> FALSE, str |-> ""]

CallReturned(response, response_text) ==
    [site |-> llm.site, agent |-> llm.agent, attempts |-> attempts + 1, sleeps |-> sleeps,
     errors |-> errs, outcome |-> "returned", response |-> response,
     text |-> response_text, exc |-> NoException]

CallRaised(e, exc) ==
    [site |-> llm.site, agent |-> llm.agent, attempts |-> attempts + 1, sleeps |-> sleeps,
     errors |-> Append(errs, e), outcome |-> "raised", response |-> NoResponse,
     text |-> "", exc |-> exc]

\* the planner returning after its first call, with no research tasks
PlannerAfterPlanWithoutTasks(plan, log) ==
    /\ planLocal' = ""
    /\ FinishNode("planner", planner_node_update(state, PlannerResult(plan, "")), log)
    /\ EndCall
    /\ UNCHANGED wrapperCalls

\* PlannerAgent.execute between its two calls
PlannerAfterPlan(plan, log) ==
    /\ planLocal' = plan
    /\ LET log1 == log_operation(log, "Planner", "Plan Created",
                       "Plan length: " \o ToString(Len(plan)) \o " characters",
                       "success", "none")
           log2 == log_operation(log1, "Planner", "Extracting Research Tasks",
                       "Analyzing plan to identify research requirements", "info", "none")
       IN  StartCall("tasks", "Planner", ResearchTasksPrompt(plan), log2)
    /\ UNCHANGED <<pc, state, result>>

\* PlannerAgent.execute after its second call, and the rest of _planner_node
PlannerAfterTasks(research_tasks, log) ==
    /\ planLocal' = ""
    /\ LET log1 == log_operation(log, "Planner", "Execution Completed",
                       "Research tasks identified: " \o ToString(SplitCount(research_tasks, "\\n"))
                           \o " items", "success", "timed")
           log2 == log_state_transition(log1, "Planner", "Researcher",
                       "Planning completed, moving to research")
       IN  FinishNode("planner",
               planner_node_update(state, PlannerResult(planLocal, research_tasks)), log2)
    /\ EndCall
    /\ UNCHANGED wrapperCalls

ResearcherAfterCall(research_results, log) ==
    /\ LET log1 == log_operation(log, "Researcher", "Research Completed",
                       "Results length: " \o ToString(Len(research_results)) \o " characters",
                       "success", "timed")
           log2 == log_state_transition(log1, "Researcher", "Executor",
                       "Research completed, moving to execution")
       IN  FinishNode("researcher",
               researcher_node_update(state, ResearcherResult(research_results)), log2)
    /\ EndCall
    /\ UNCHANGED <<planLocal, wrapperCalls>>

ExecutorAfterCall(final_itinerary, log) ==
    /\ LET log1 == log_operation(log, "Executor", "Execution Completed",
                       "Final itinerary created: " \o ToString(Len(final_itinerary))
                           \o " characters", "success", "timed")
           log2 == log_state_transition(log1, "Executor", "Validator",
                       "Execution completed, moving to validation")
       IN  FinishNode("executor",
               executor_node_update(state, ExecutorResult(final_itinerary)), log2)
    /\ EndCall
    /\ UNCHANGED <<planLocal, wrapperCalls>>

ValidatorAfterCall(validation, log) ==
    /\ LET log1 == log_operation(log, "Validator", "Validation Completed",
                       "Validation feedback: " \o ToString(Len(validation)) \o " characters",
                       "success", "timed")
           log2 == log_state_transition(log1, "Validator", "END",
                       "Validation completed, workflow finished")
       IN  FinishNode("validator",
               validator_node_update(state, ValidatorResult(validation)), log2)
    /\ EndCall
    /\ UNCHANGED <<planLocal, wrapperCalls>>

DirectAfterCall(response_text, log) ==
    /\ pc' = "returned"
    /\ result' = Returned(response_text)
    /\ llm' = NoCall
    /\ logs' = log
    /\ EndCall
    /\ UNCHANGED <<state, planLocal, wrapperCalls>>

\* _call_llm returns response_text to the code that called it
ReturnToCaller(response_text, log) ==
    CASE llm.site = "plan" -> PlannerAfterPlan(response_text, log)
      [] llm.site = "tasks" -> PlannerAfterTasks(response_text, log)
      [] llm.site = "research" -> ResearcherAfterCall(response_text, log)
      [] llm.site = "execute" -> ExecutorAfterCall(response_text, log)
      [] llm.site = "validate" -> ValidatorAfterCall(response_text, log)
      [] llm.site = "direct" -> DirectAfterCall(response_text, log)

\* llm.invoke returns: _call_llm returns the text and its caller goes on
LLMSucceeds(response) ==
    /\ llm.site # "none"
    /\ LET response_text == ResponseText(response)
           log1 == LogCallSucceeded(logs, llm, response_text)
       IN  /\ calls' = Append(calls, CallReturned(response, response_text))
           /\ ReturnToCaller(response_text, log1)
    /\ externalCalls' = externalCalls + 1
    /\ UNCHANGED <<stagesRun, failures>>
    /\ UNCHANGED <<bridgeVars, readerVars>>

\* llm.invoke raises e and the loop goes round: the sleep and the next delay
InvokeFailsAndRetries(e) ==
    /\ llm.site # "none"
    /\ ~StopsRetrying(llm, e)
    /\ \E jitter \in JitterChoices(BackoffDelay(llm)) :
        LET delay == BackoffDelay(llm)
            total_delay == delay + jitter
        IN  /\ logs' = LogRetrying(LogAttemptError(logs, llm, e), llm, total_delay)
            /\ sleeps' = Append(sleeps, [delay |-> delay, jitter |-> jitter])
    /\ llm' = [llm EXCEPT !.last_exception = e,
                          !.retry_delay = NextRetryDelay(llm),
                          !.attempt = llm.attempt + 1]
    /\ attempts' = attempts + 1
    /\ errs' = Append(errs, e)
    /\ externalCalls' = externalCalls + 1
    /\ failures' = failures + 1
    /\ UNCHANGED <<pc, state, result, planLocal, stagesRun, calls, wrapperCalls>>
    /\ UNCHANGED <<bridgeVars, readerVars>>

\* the same in a behaviour with a budget of failures
LLMFailsAndRetries(e) == failures < MaxFailures /\ InvokeFailsAndRetries(e)

\* the exception leaves _call_llm: PlannerAgent.execute logs and re-raises it, the other
\* agents and the graph let it through, process_query logs and re-raises it
LogPropagation(log, site, exc) ==
    LET log1 == IF site \in {"plan", "tasks"}
                THEN log_operation(log, "Planner", "Execution Failed",
                         "Error: " \o exc.msg, "error", "timed")
                ELSE log
    IN  IF site = "direct" THEN log1
        ELSE log_operation(log1, "Orchestrator", "Workflow Failed",
                 "Error: " \o exc.msg, "error", "timed")

\* the failure caught where the call was made, the caller going on with an empty text
LLMFailsAndContinues(e) ==
    /\ llm.site # "none"
    /\ failures < MaxFailures
    /\ StopsRetrying(llm, e)
    /\ LET f == [llm EXCEPT !.last_exception = e]
           exc == RaisedException(f.last_exception)
           log1 == LogExhausted(LogAttemptError(logs, llm, e), f, f.last_exception)
       IN  /\ calls' = Append(calls, CallRaised(e, exc))
           /\ ReturnToCaller("", log1)
    /\ externalCalls' = externalCalls + 1
    /\ failures' = failures + 1
    /\ UNCHANGED stagesRun
    /\ UNCHANGED <<bridgeVars, readerVars>>

\* llm.invoke raises e and the loop is left: the report, the exception raised
InvokeFailsAndRaises(e) ==
    /\ llm.site # "none"
    /\ StopsRetrying(llm, e)
    /\ LET f == [llm EXCEPT !.last_exception = e]
           exc == RaisedException(f.last_exception)
           log1 == LogExhausted(LogAttemptError(logs, llm, e), f, f.last_exception)
       IN  /\ logs' = LogPropagation(log1, llm.site, exc)
           /\ result' = Raised(exc)
           /\ calls' = Append(calls, CallRaised(e, exc))
    /\ pc' = "raised"
    /\ llm' = NoCall
    /\ planLocal' = ""
    /\ EndCall
    /\ externalCalls' = externalCalls + 1
    /\ failures' = failures + 1
    /\ UNCHANGED <<state, stagesRun, wrapperCalls>>
    /\ UNCHANGED <<bridgeVars, readerVars>>

\* the same in a behaviour with a budget of failures
LLMFailsAndRaises(e) == failures < MaxFailures /\ InvokeFailsAndRaises(e)

(***************************************************************************)
(* Specifications.                                                         *)
(***************************************************************************)
\* one process_query, the service answering and failing as it likes
Next ==
    \/ \E q \in Queries, h \in Histories : process_query(q, h)
    \/ PlannerStart
    \/ ResearcherShortCircuit
    \/ ResearcherStart
    \/ ExecutorStart
    \/ ValidatorShortCircuit
    \/ ValidatorStart
    \/ \E r \in PipelineResponses : LLMSucceeds(r)
    \/ \E r \in ItineraryResponses : llm.site = "execute" /\ LLMSucceeds(r)
    \/ \E e \in PipelineErrors : LLMFailsAndRetries(e)
    \/ \E e \in PipelineErrors : LLMFailsAndRaises(e)

Spec == Init /\ [][Next]_vars

\* one process_query to its end, every llm.invoke free to fail: no budget of failures,
\* the retry loop alone decides how often a call is attempted
RunQueries == {"rome"}

RunHistories == { <<>> }

\* a step of the run that process_query has started: llm.invoke returns or raises, or
\* the stage that is next starts; every sleep of these runs is drawn without jitter
RunStep ==
    \/ \E e \in PipelineErrors : InvokeFailsAndRaises(e)
    \/ \E e \in PipelineErrors :
           InvokeFailsAndRetries(e) /\ sleeps'[Len(sleeps')].jitter = 0
    \/ \E r \in PipelineResponses : LLMSucceeds(r)
    \/ PlannerStart
    \/ ResearcherShortCircuit
    \/ ResearcherStart
    \/ ExecutorStart
    \/ ValidatorShortCircuit
    \/ ValidatorStart

NextRun ==
    \/ \E q \in RunQueries, h \in RunHistories : process_query(q, h)
    \/ RunStep

\* process_query runs on one thread, which goes on whenever it can: each llm.invoke
\* returns or raises, and the code between two of them always comes to the next
SpecRun == Init /\ [][NextRun]_vars /\ WF_vars(RunStep)

DirectPrompts == {"", "hello"}

\* one _call_llm of one agent, against every response shape and every error message
NextCall ==
    \/ \E a \in Agents, p \in DirectPrompts : DirectCall(a, p)
    \/ \E r \in Responses : LLMSucceeds(r)
    \/ \E e \in Errors : LLMFailsAndRetries(e)
    \/ \E e \in Errors : LLMFailsAndRaises(e)

SpecCall == Init /\ [][NextCall]_vars

(***************************************************************************)
(* The background bridge of app.py: one session's script runs and the      *)
(* worker threads they start.  A script run is taken in two steps, from    *)
(* its top to the chat input and from the chat input to its end, since     *)
(* the queue and the thread are the only things it shares with a worker    *)
(* and it reads each of them once, in one of the two.  The worker's run    *)
(* of the workflow is taken as one step that gives what process_query      *)
(* gives: the final state for the texts the service returned, or the       *)
(* exception of the wrapper call that failed.                              *)
(***************************************************************************)
\* prompts submitted in one behaviour of the bridge
MaxSubmissions == 3

Prompts == {"rome"}

\* the texts of the five wrapper calls of a run that returns
BridgeTexts ==
    { [plan |-> "p", tasks |-> "t", research |-> "r", execute |-> "i", validate |-> "v"],
      [plan |-> "", tasks |-> "", research |-> "", execute |-> "", validate |-> ""] }

\* the error histories of the wrapper call that makes a run raise: a fatal error at the
\* first attempt or after a retry, and the same rate-limit error at every attempt
FailedCalls ==
    { <<"Invalid API key">>,
      <<"429 Too Many Requests", "Invalid API key">>,
      <<"429 Too Many Requests", "429 Too Many Requests", "429 Too Many Requests">>,
      <<"Quota exceeded", "Quota exceeded", "Quota exceeded">> }

\* what TravelAgentOrchestrator() raises when the agents cannot be built
ConstructionErrors == { [type |-> "ValueError", msg |-> "API key required"] }

\* lines 313-516: the poll, the result and error blocks, the processing indicator
ScriptPoll ==
    /\ script = "top"
    /\ queue' = Drain(queue)
    /\ LET s == Poll(session, queue) IN
        IF s.processing_result # None
        THEN session' = ShowResult(s) /\ notice' = "result" /\ script' = "top"
        ELSE IF s.processing_error # None
        THEN session' = ShowError(s) /\ notice' = "error" /\ script' = "top"
        ELSE IF ShowsIndicator(s)
        THEN session' = s /\ notice' = "processing" /\ script' = "top"
        ELSE session' = s /\ notice' = "none" /\ script' = "input"
    /\ UNCHANGED <<threads, submitted>>
    /\ UNCHANGED <<pipelineVars, readerVars>>

\* st.chat_input gives no prompt: the run ends, the next one starts at the top
ScriptNoInput ==
    /\ script = "input"
    /\ script' = "top"
    /\ UNCHANGED <<session, queue, threads, notice, submitted>>
    /\ UNCHANGED <<pipelineVars, readerVars>>

\* a submission that starts a worker also when the stored thread is alive
ScriptSubmitQueueing(prompt) ==
    /\ script = "input"
    /\ Len(submitted) < MaxSubmissions
    /\ LET s == [session EXCEPT !.messages = Append(@, Msg("user", prompt)),
                                !.conversation_history = Append(@, Msg("user", prompt))]
       IN  /\ threads' = Append(threads, NewThread(prompt, s.conversation_history))
           /\ session' = IF AcceptsSubmission(session, threads)
                         THEN [s EXCEPT !.processing = TRUE,
                                        !.processing_query = Some(prompt),
                                        !.processing_thread = Len(threads) + 1]
                         ELSE s
           /\ notice' = IF AcceptsSubmission(session, threads) THEN "started" ELSE "wait"
           /\ submitted' = Append(submitted,
                   [prompt |-> prompt, accepted |-> AcceptsSubmission(session, threads)])
    /\ script' = "top"
    /\ UNCHANGED queue
    /\ UNCHANGED <<pipelineVars, readerVars>>

\* lines 519-570: a prompt is submitted
ScriptSubmit(prompt) ==
    /\ script = "input"
    /\ Len(submitted) < MaxSubmissions
    /\ LET s == [session EXCEPT !.messages = Append(@, Msg("user", prompt)),
                                !.conversation_history = Append(@, Msg("user", prompt))]
       IN  IF AcceptsSubmission(session, threads)
           THEN /\ threads' = Append(threads, NewThread(prompt, s.conversation_history))
                /\ session' = [s EXCEPT !.processing = TRUE,
                                        !.processing_query = Some(prompt),
                                        !.processing_thread = Len(threads) + 1]
                /\ notice' = "started"
                /\ submitted' = Append(submitted, [prompt |-> prompt, accepted |-> TRUE])
           ELSE /\ threads' = threads
                /\ session' = s
                /\ notice' = "wait"
                /\ submitted' = Append(submitted, [prompt |-> prompt, accepted |-> FALSE])
    /\ script' = "top"
    /\ UNCHANGED queue
    /\ UNCHANGED <<pipelineVars, readerVars>>

WorkerStep ==
    UNCHANGED <<script, session, notice, submitted>> /\ UNCHANGED <<pipelineVars, readerVars>>

\* the orchestrator is built and process_query returns the final state
WorkerReturns(t, texts) ==
    /\ threads[t].pos = "started"
    /\ threads' = [threads EXCEPT
           ![t].pos = "returned",
           ![t].result = Some(WorkflowResult(threads[t].query,
                                  threads[t].conversation_history, texts))]
    /\ UNCHANGED queue
    /\ WorkerStep

\* an exception raised in the try block: caught by the handler, or leaving the thread
WorkerRaises(t, exc, es) ==
    /\ threads[t].pos = "started"
    /\ threads' = [threads EXCEPT
           ![t].pos = IF WorkerCatches(exc) THEN "raised" ELSE "escaped",
           ![t].exc = exc,
           ![t].errors = es]
    /\ UNCHANGED queue
    /\ WorkerStep

WorkerConstructionFails(t, exc) == WorkerRaises(t, exc, <<>>)

\* process_query raises what the failed wrapper call raised
WorkerWorkflowRaises(t, es) ==
    /\ threads[t].pos = "started"
    /\ FailedCall(es)
    /\ WorkerRaises(t, RaisedException(es[Len(es)]), es)

\* result_queue.put of the try block
WorkerPutsSuccess(t) ==
    /\ threads[t].pos = "returned"
    /\ LET m == SuccessMessage(threads[t].result[1]) IN
        /\ queue' = Append(queue, m)
        /\ threads' = [threads EXCEPT ![t].pos = "put", ![t].put = Append(@, m)]
    /\ WorkerStep

\* the handler putting its message twice
WorkerPutsErrorTwice(t) ==
    /\ threads[t].pos = "raised"
    /\ LET m == ErrorMessage(threads[t].exc) IN
        /\ queue' = Append(Append(queue, m), m)
        /\ threads' = [threads EXCEPT ![t].pos = "put", ![t].put = Append(Append(@, m), m)]
    /\ WorkerStep

\* the handler: the message built and put
WorkerPutsError(t) ==
    /\ threads[t].pos = "raised"
    /\ LET m == ErrorMessage(threads[t].exc) IN
        /\ queue' = Append(queue, m)
        /\ threads' = [threads EXCEPT ![t].pos = "put", ![t].put = Append(@, m)]
    /\ WorkerStep

\* the target returns and the thread is no longer alive
WorkerEnds(t) ==
    /\ threads[t].pos = "put"
    /\ threads' = [threads EXCEPT ![t].pos = "ended"]
    /\ UNCHANGED queue
    /\ WorkerStep

NextBridge ==
    \/ ScriptPoll
    \/ ScriptNoInput
    \/ \E p \in Prompts : ScriptSubmit(p)
    \/ \E t \in DOMAIN threads, texts \in BridgeTexts : WorkerReturns(t, texts)
    \/ \E t \in DOMAIN threads, exc \in ConstructionErrors : WorkerConstructionFails(t, exc)
    \/ \E t \in DOMAIN threads, es \in FailedCalls : WorkerWorkflowRaises(t, es)
    \/ \E t \in DOMAIN threads : WorkerPutsSuccess(t)
    \/ \E t \in DOMAIN threads : WorkerPutsError(t)
    \/ \E t \in DOMAIN threads : WorkerEnds(t)

SpecBridge == Init /\ [][NextBridge]_vars

\* the try block of a worker comes to its end, one way or another
WorkerRuns(t) ==
    \/ \E exc \in ConstructionErrors : WorkerConstructionFails(t, exc)
    \/ \E es \in FailedCalls : WorkerWorkflowRaises(t, es)
    \/ \E texts \in BridgeTexts : WorkerReturns(t, texts)

\* The bridge with its threads scheduled and its script polling: a started thread keeps
\* running (every external call returns or raises, so the try block ends; a put and the
\* return of the target are not held up), and the script, which reruns itself every three
\* seconds while processing is set, keeps starting runs.
SpecBridgeFair ==
    /\ SpecBridge
    /\ WF_vars(ScriptPoll)
    /\ WF_vars(\E t \in DOMAIN threads : WorkerRuns(t))
    /\ WF_vars(\E t \in DOMAIN threads : WorkerPutsSuccess(t))
    /\ WF_vars(\E t \in DOMAIN threads : WorkerPutsError(t))
    /\ WF_vars(\E t \in DOMAIN threads : WorkerEnds(t))

(***************************************************************************)
(* The workflow with the log cleared at any point: the logger is one       *)
(* object of the process, and the sidebar's buttons call clear_logs while  *)
(* a workflow runs.                                                        *)
(***************************************************************************)
\* TravelAgentLogger.clear_logs
clear_logs(log) == <<>>

\* clear_logs and, with it, the plan the planner holds
ClearLogsAndPlan ==
    /\ logs' = clear_logs(logs)
    /\ planLocal' = ""
    /\ UNCHANGED <<pc, state, result, llm, stagesRun, attempts, sleeps, errs, calls,
                   externalCalls, wrapperCalls, failures>>
    /\ UNCHANGED <<bridgeVars, readerVars>>

\* a button of the sidebar calls logger.clear_logs()
ClearLogs ==
    /\ logs' = clear_logs(logs)
    /\ UNCHANGED <<pc, state, result, llm, planLocal, stagesRun, attempts, sleeps, errs,
                   calls, externalCalls, wrapperCalls, failures>>
    /\ UNCHANGED <<bridgeVars, readerVars>>

ClearQueries == {"rome"}

ClearHistories == { <<>> }

NextClear ==
    \/ \E q \in ClearQueries, h \in ClearHistories : process_query(q, h)
    \/ PlannerStart
    \/ ResearcherShortCircuit
    \/ ResearcherStart
    \/ ExecutorStart
    \/ ValidatorShortCircuit
    \/ ValidatorStart
    \/ \E r \in PipelineResponses : LLMSucceeds(r)
    \/ \E e \in PipelineErrors : LLMFailsAndRetries(e)
    \/ \E e \in PipelineErrors : LLMFailsAndRaises(e)
    \/ ClearLogs

SpecClear == Init /\ [][NextClear]_vars

(***************************************************************************)
(* The log read while a workflow writes it: the script thread runs         *)
(* get_log_summary for the sidebar and get_logs for the log page, the      *)
(* worker thread runs the workflow; both use the one logger of the process.*)
(***************************************************************************)
\* the largest limit passed to get_logs
MaxLimit == 3

AgentArgs == { None, Some(""), Some("Planner"), Some("Orchestrator") }

LimitArgs == { None } \cup { Some(n) : n \in 0..MaxLimit }

ReaderResponses == { MessageResponse("x\ny") }

\* the workflow as the writer of the log
LogWriter ==
    \/ \E q \in ClearQueries, h \in ClearHistories : process_query(q, h)
    \/ PlannerStart
    \/ ResearcherStart
    \/ ExecutorStart
    \/ ValidatorStart
    \/ \E r \in ReaderResponses : LLMSucceeds(r)

ReaderStep == UNCHANGED <<pipelineVars, bridgeVars>>

\* get_log_summary, line 96: the test of the empty log and its early return
SummaryStarts ==
    /\ summary.pos = "idle"
    /\ summary' = IF logs = <<>>
                  THEN [summary EXCEPT !.pos = "done", !.out = Some(EmptySummary)]
                  ELSE [summary EXCEPT !.pos = "loop"]
    /\ UNCHANGED fetched
    /\ ReaderStep

\* one turn of `for log in self.logs`: the list iterator takes the next entry of the list
SummaryIterates ==
    /\ summary.pos = "loop"
    /\ summary.index < Len(logs)
    /\ LET log == logs[summary.index + 1] IN
           summary' = [summary EXCEPT !.index = @ + 1,
                                      !.by_agent = CountOne(@, log.agent),
                                      !.by_status = CountOne(@, log.status)]
    /\ UNCHANGED fetched
    /\ ReaderStep

\* the iterator finds no further entry and the loop ends
SummaryLoopEnds ==
    /\ summary.pos = "loop"
    /\ summary.index >= Len(logs)
    /\ summary' = [summary EXCEPT !.pos = "after_loop"]
    /\ UNCHANGED fetched
    /\ ReaderStep

\* lines 109-114: the dict returned, len(self.logs) and self.logs[-1] read now
SummaryReturns ==
    /\ summary.pos = "after_loop"
    /\ summary' = [summary EXCEPT
           !.pos = "done",
           !.out = Some([total |-> Len(logs), by_agent |-> summary.by_agent,
                         by_status |-> summary.by_status,
                         last_log |-> IF logs # <<>> THEN Some(logs[Len(logs)]) ELSE None])]
    /\ UNCHANGED fetched
    /\ ReaderStep

NextSummary ==
    \/ LogWriter
    \/ SummaryStarts
    \/ SummaryIterates
    \/ SummaryLoopEnds
    \/ SummaryReturns

SpecSummary == Init /\ [][NextSummary]_vars

\* a call of get_logs on the log as it is
GetLogs(agent, limit) ==
    /\ fetched = None
    /\ fetched' = Some([agent |-> agent, limit |-> limit, of |-> logs,
                        logs |-> get_logs(logs, agent, limit)])
    /\ UNCHANGED summary
    /\ ReaderStep

NextGetLogs ==
    \/ LogWriter
    \/ \E agent \in AgentArgs, limit \in LimitArgs : GetLogs(agent, limit)

SpecGetLogs == Init /\ [][NextGetLogs]_vars

(***************************************************************************)
(* Properties.                                                             *)
(***************************************************************************)
StageOrder == <<"planner", "researcher", "executor", "validator">>

\* the node a call site belongs to
StageOf(site) ==
    CASE site \in {"plan", "tasks"} -> "planner"
      [] site = "research" -> "researcher"
      [] site = "execute" -> "executor"
      [] site = "validate" -> "validator"
      [] OTHER -> "none"

RECURSIVE SumAttempts(_)
SumAttempts(cs) == IF cs = <<>> THEN 0 ELSE cs[1].attempts + SumAttempts(Tail(cs))

RECURSIVE Pow(_, _)
Pow(b, n) == IF n = 0 THEN 1 ELSE b * Pow(b, n - 1)

AllIn(seq, S) == \A i \in DOMAIN seq : seq[i] \in S

\* the finished call made from a site (each site is called at most once in a run)
CallAt(site) == calls[CHOOSE i \in DOMAIN calls : calls[i].site = site]

Called(site) == \E i \in DOMAIN calls : calls[i].site = site

\* C1: in a run of process_query the stages are entered in the order planner,
\* researcher, executor, validator, each at most once and one at a time (a running
\* wrapper call belongs to the stage entered last); when process_query has returned,
\* all four have run exactly once and no call is running.
C1_StagesRunOnceInOrder ==
    /\ Len(stagesRun) <= Len(StageOrder)
    /\ stagesRun = SubSeq(StageOrder, 1, Len(stagesRun))
    /\ llm.site # "none" => stagesRun # <<>> /\ stagesRun[Len(stagesRun)] = StageOf(llm.site)
    /\ pc = "returned" => stagesRun = StageOrder /\ llm.site = "none"

C1_Witness == pc = "returned" /\ stagesRun = StageOrder

NoShortCircuit == Called("research") /\ Called("validate")

\* C2 as stated: for a non-empty user_query, when process_query returns and no stage
\* short-circuited, iteration is 4, status is "validation_completed" and plan,
\* research_results, final_itinerary and validation are all non-empty.
C2_Original ==
    (pc = "returned" /\ result.value.user_query # "" /\ NoShortCircuit) =>
        /\ result.value.iteration = 4
        /\ result.value.status = "validation_completed"
        /\ result.value.plan # ""
        /\ result.value.research_results # ""
        /\ result.value.final_itinerary # ""
        /\ result.value.validation # ""

\* C2 as amended: for a non-empty user_query, when process_query returns and no stage
\* short-circuited, iteration is 4, status is "validation_completed", and plan,
\* research_results, final_itinerary and validation are each exactly the text the wrapper
\* returned for it (so each is empty exactly when the service's answer was empty).
C2_ReturnedStateCarriesResponses ==
    (pc = "returned" /\ result.value.user_query # "" /\ NoShortCircuit) =>
        /\ result.value.iteration = 4
        /\ result.value.status = "validation_completed"
        /\ result.value.plan = CallAt("plan").text
        /\ result.value.research_results = CallAt("research").text
        /\ result.value.final_itinerary = CallAt("execute").text
        /\ result.value.validation = CallAt("validate").text

C2_Witness ==
    /\ pc = "returned" /\ result.value.user_query # "" /\ NoShortCircuit
    /\ result.value.plan # "" /\ result.value.research_results = ""

\* C3 as stated: when every attempt of a _call_llm fails with an error carrying a
\* rate-limit marker, exactly MAX_RETRIES + 1 attempts are made and RateLimitError is raised.
C3_Original ==
    \A i \in DOMAIN calls :
        (calls[i].outcome = "raised" /\ AllIn(calls[i].errors, RateLimitMessages)) =>
            /\ calls[i].attempts = MAX_RETRIES + 1
            /\ calls[i].exc.type = "RateLimitError"

\* C4: a fatal error ends _call_llm at once: it is the last error of its call, the
\* call made as many attempts as it has errors and one sleep fewer, and it raised; a
\* call still running has had no fatal error.
C4_FatalErrorEndsCall ==
    /\ \A k \in DOMAIN errs : errs[k] \notin FatalMessages
    /\ \A i \in DOMAIN calls : \A k \in DOMAIN calls[i].errors :
           calls[i].errors[k] \in FatalMessages =>
               /\ k = Len(calls[i].errors)
               /\ calls[i].attempts = k
               /\ Len(calls[i].sleeps) = k - 1
               /\ calls[i].outcome = "raised"
               /\ llm.site = "none" /\ externalCalls = SumAttempts(calls)

C4_Witness ==
    \E i \in DOMAIN calls :
        /\ Len(calls[i].errors) = 2
        /\ calls[i].errors[2] \in FatalMessages
        /\ Len(calls[i].sleeps) = 1

\* C5 as stated: a fatal failure of _call_llm reaches the caller as the original
\* error, unchanged.
C5_Original ==
    \A i \in DOMAIN calls :
        LET c == calls[i] IN
            (c.outcome = "raised" /\ c.errors[Len(c.errors)] \in FatalMessages) =>
                c.exc.msg = c.errors[Len(c.errors)]

\* C6: when every attempt of a _call_llm fails with a transient error that is no
\* rate-limit error, exactly MAX_RETRIES + 1 attempts are made and the exception raised
\* is the generic one, not RateLimitError.
C6_TransientExhaustionIsGeneric ==
    \A i \in DOMAIN calls :
        LET c == calls[i] IN
            (c.outcome = "raised" /\ AllIn(c.errors, TransientMessages)) =>
                /\ c.attempts = MAX_RETRIES + 1
                /\ c.exc.type = "Exception"
                /\ c.exc.msg = "Failed to get response from LLM: " \o c.errors[Len(c.errors)]

C6_Witness ==
    \E i \in DOMAIN calls :
        /\ calls[i].outcome = "raised"
        /\ AllIn(calls[i].errors, TransientMessages)
        /\ Len(calls[i].errors) = MAX_RETRIES + 1

\* C7: when the first k attempts (1 <= k <= MAX_RETRIES) fail with retryable errors and
\* attempt k + 1 succeeds, _call_llm returns that attempt's text (the response's content,
\* or the response as a string), raises nothing and makes no attempt after it.
C7_SuccessAfterRetriesReturnsText ==
    \A i \in DOMAIN calls :
        LET c == calls[i] IN
            (c.outcome = "returned" /\ Len(c.errors) >= 1) =>
                /\ Len(c.errors) <= MAX_RETRIES
                /\ AllIn(c.errors, RateLimitMessages \cup TransientMessages)
                /\ c.attempts = Len(c.errors) + 1
                /\ c.text = IF c.response.has_content THEN c.response.content
                            ELSE c.response.str
                /\ c.site = "direct" =>
                       /\ pc = "returned"
                       /\ result = Returned(c.text)
                       /\ externalCalls = c.attempts

C7_Witness ==
    \E i \in DOMAIN calls :
        /\ calls[i].outcome = "returned"
        /\ Len(calls[i].errors) = MAX_RETRIES
        /\ calls[i].response.has_content
        /\ calls[i].text # ""

\* the delays a call has slept: as the claim gives them
DelaysAsClaimed(ss) ==
    \A k \in DOMAIN ss :
        /\ ss[k].delay = Min(INITIAL_RETRY_DELAY * Pow(RETRY_BACKOFF_MULTIPLIER, k - 1),
                             MAX_RETRY_DELAY)
        /\ 0 <= ss[k].jitter /\ 10 * ss[k].jitter <= ss[k].delay
        /\ ss[k].delay <= MAX_RETRY_DELAY
        /\ k > 1 => ss[k - 1].delay <= ss[k].delay

\* C8: in one _call_llm the delay slept before retry n (from 0) is
\* min(INITIAL_RETRY_DELAY * RETRY_BACKOFF_MULTIPLIER^n, MAX_RETRY_DELAY) plus a jitter
\* between 0 and a tenth of it; the delays before jitter never decrease and never exceed
\* MAX_RETRY_DELAY.
C8_BackoffDelays ==
    /\ DelaysAsClaimed(sleeps)
    /\ \A i \in DOMAIN calls : DelaysAsClaimed(calls[i].sleeps)

C8_Witness ==
    \E i \in DOMAIN calls :
        /\ Len(calls[i].sleeps) = 2
        /\ calls[i].sleeps[1].delay < calls[i].sleeps[2].delay
        /\ calls[i].sleeps[2].delay = MAX_RETRY_DELAY
        /\ calls[i].sleeps[2].jitter > 0

\* C9: when a wrapper call fails, process_query raises that failure to its caller and
\* returns no state: the failed call is the last wrapper call of the run (the planner's
\* second call is not made when its first fails), the stage it was made in is the last
\* stage entered and no external call follows it.
C9_FailureAbortsPipeline ==
    /\ \A i \in DOMAIN calls :
           calls[i].outcome = "raised" => i = Len(calls) /\ pc = "raised"
    /\ pc = "raised" =>
           /\ calls # <<>> /\ calls[Len(calls)].outcome = "raised"
           /\ result = Raised(calls[Len(calls)].exc)
           /\ stagesRun[Len(stagesRun)] = StageOf(calls[Len(calls)].site)
           /\ wrapperCalls = Len(calls)
           /\ externalCalls = SumAttempts(calls)
           /\ llm.site = "none"

C9_Witness ==
    /\ pc = "raised"
    /\ calls[Len(calls)].site = "plan"
    /\ calls[Len(calls)].attempts = MAX_RETRIES + 1
    /\ wrapperCalls = 1

\* C10: when research_tasks is empty as the Research stage is entered, the stage gives
\* status "no_tasks" and research_results "No research tasks provided." and makes no
\* wrapper call and no external call.
C10_NoTasksShortCircuit ==
    [][(pc = "researcher" /\ state.research_tasks = "") =>
           /\ pc' = "executor"
           /\ state'.status = "no_tasks"
           /\ state'.research_results = "No research tasks provided."
           /\ state'.current_agent = "researcher"
           /\ llm'.site = "none"
           /\ wrapperCalls' = wrapperCalls
           /\ externalCalls' = externalCalls]_vars

C10_Witness ==
    /\ pc = "executor"
    /\ state.research_tasks = ""
    /\ state.status = "no_tasks"
    /\ state.research_results = "No research tasks provided."
    /\ ~Called("research")

\* C11: when final_itinerary and plan are both empty as the Validate stage is entered,
\* the stage gives status "no_content" and validation "No content to validate.", the run
\* returns, and no wrapper call and no external call is made.
C11_NoContentShortCircuit ==
    [][(pc = "validator" /\ state.final_itinerary = "" /\ state.plan = "") =>
           /\ pc' = "returned"
           /\ state'.status = "no_content"
           /\ state'.validation = "No content to validate."
           /\ state'.current_agent = "validator"
           /\ result' = Returned(state')
           /\ llm'.site = "none"
           /\ wrapperCalls' = wrapperCalls
           /\ externalCalls' = externalCalls]_vars

C11_Witness ==
    /\ pc = "returned"
    /\ result.value.plan = "" /\ result.value.final_itinerary = ""
    /\ result.value.status = "no_content"
    /\ result.value.validation = "No content to validate."
    /\ ~Called("validate")

\* the Research stage of this run took its short-circuit
ResearchShortCircuited ==
    /\ Len(stagesRun) >= 2
    /\ ~Called("research")
    /\ llm.site # "research"
    /\ ~(pc = "raised" /\ Len(stagesRun) = 2)

\* C12: the "no_tasks" short-circuit is no failure: the step that takes it raises nothing
\* and hands over to the Execute stage; from then on the run is in the Execute or the
\* Validate stage, or has returned a state after all four stages ran, and it has raised
\* only if a wrapper call of the Execute or the Validate stage failed.
C12_ShortCircuitIsNoFailure ==
    /\ (state.status = "no_tasks" /\ Len(stagesRun) = 2) =>
           pc = "executor" /\ result = NoResult
    /\ ResearchShortCircuited =>
           /\ state.research_results = "No research tasks provided."
           /\ pc \in {"executor", "validator", "returned", "raised"}
           /\ pc = "returned" =>
                  /\ stagesRun = StageOrder
                  /\ result = Returned(state)
                  /\ \A i \in DOMAIN calls : calls[i].outcome = "returned"
           /\ pc = "raised" =>
                  /\ calls[Len(calls)].outcome = "raised"
                  /\ calls[Len(calls)].site \in {"execute", "validate"}

C12_Witness ==
    /\ pc = "returned"
    /\ ResearchShortCircuited
    /\ result.value.research_results = "No research tasks provided."
    /\ Called("execute") /\ Called("validate")
    /\ result.value.status = "validation_completed"

\* the number of stages that have completed: those entered, less the one that is still
\* running or that raised
CompletedStages ==
    IF llm.site # "none" \/ pc = "raised" THEN Len(stagesRun) - 1 ELSE Len(stagesRun)

\* C13: iteration is 0 when the run starts and is the number of stages completed at every
\* point of the run; a step changes it only by completing a stage, and then by exactly 1.
C13_IterationCountsStages ==
    /\ state.iteration = CompletedStages
    /\ pc = "returned" => result.value.iteration = Len(StageOrder)

C13_Witness ==
    /\ pc = "validator" /\ llm.site = "none"
    /\ state.iteration = 3
    /\ ~Called("research")

\* C14: between stages current_agent is the stage that completed last: empty before the
\* first stage completes, and "validator" in the state returned.
C14_CurrentAgentIsLastCompleted ==
    /\ state.current_agent =
           IF CompletedStages = 0 THEN "" ELSE StageOrder[CompletedStages]
    /\ pc = "returned" => result.value.current_agent = "validator"

C14_Witness ==
    /\ pc = "executor" /\ llm.site = "execute"
    /\ state.current_agent = "researcher"
    /\ Called("research")

\* the fields of the state a step leaves as they are
Keeps(fields) == \A k \in fields : state'[k] = state[k]

\* C15: a stage changes only its own content fields and status, current_agent and
\* iteration: the planner plan and research_tasks, the researcher research_results, the
\* executor final_itinerary, the validator validation; user_query and
\* conversation_history are changed by no stage.
C15_StagesWriteOwnFields ==
    [][/\ pc = "planner" =>
              Keeps({"user_query", "conversation_history", "research_results",
                     "final_itinerary", "validation"})
       /\ pc = "researcher" =>
              Keeps({"user_query", "conversation_history", "plan", "research_tasks",
                     "final_itinerary", "validation"})
       /\ pc = "executor" =>
              Keeps({"user_query", "conversation_history", "plan", "research_tasks",
                     "research_results", "validation"})
       /\ pc = "validator" =>
              Keeps({"user_query", "conversation_history", "plan", "research_tasks",
                     "research_results", "final_itinerary"})]_vars

C15_Witness ==
    /\ pc = "returned"
    /\ result.value.user_query = "rome"
    /\ result.value.conversation_history # <<>>
    /\ result.value.plan # "" /\ result.value.research_tasks # ""
    /\ result.value.research_results # "" /\ result.value.final_itinerary # ""
    /\ result.value.validation # ""

\* the texts the wrapper calls of a run returned (empty for a call that was not made)
TextAt(site) == IF Called(site) THEN CallAt(site).text ELSE ""

\* What the bridge takes a run of the workflow to be is what process_query gives: when it
\* returns, the state WorkflowResult computes from the texts the calls returned; when it
\* raises, the exception of a wrapper call whose errors are a FailedCall.
WorkflowSummary ==
    /\ pc = "returned" /\ stagesRun = StageOrder =>
           result.value = WorkflowResult(state.user_query, state.conversation_history,
                              [plan |-> TextAt("plan"), tasks |-> TextAt("tasks"),
                               research |-> TextAt("research"),
                               execute |-> TextAt("execute"),
                               validate |-> TextAt("validate")])
    /\ pc = "raised" =>
           LET c == calls[Len(calls)] IN
               /\ FailedCall(c.errors)
               /\ result.exc = RaisedException(c.errors[Len(c.errors)])

\* the worker threads that are alive
AliveThreads(ths) == {t \in DOMAIN ths : is_alive(ths[t])}

\* C16: at most one worker thread is alive at any time; a prompt submitted while the
\* stored thread is alive starts no thread and the user is shown the notice to wait.
C16_OneWorkerAlive ==
    [][/\ Cardinality(AliveThreads(threads')) <= 1
       /\ (/\ submitted' # submitted
           /\ session.processing_thread # 0
           /\ is_alive(threads[session.processing_thread])) =>
              /\ threads' = threads
              /\ queue' = queue
              /\ notice' = "wait"
              /\ ~submitted'[Len(submitted')].accepted]_vars

C16_Witness ==
    /\ submitted # <<>> /\ ~submitted[Len(submitted)].accepted
    /\ notice = "wait"
    /\ Cardinality(AliveThreads(threads)) = 1

\* C17: a worker is started only when every worker started before it has put its
\* terminal message and a poll has taken that message from the queue.
C17_NoSpawnBeforeDrain ==
    [][Len(threads') > Len(threads) =>
           /\ \A t \in DOMAIN threads : Len(threads[t].put) = 1
           /\ queue = <<>>]_vars

C17_Witness ==
    /\ Len(threads) = 2
    /\ threads[2].pos = "started"
    /\ is_alive(threads[2])
    /\ Len(threads[1].put) = 1 /\ queue = <<>>

\* C18: the queue never holds more than one message.
C18_QueueHoldsAtMostOne == Len(queue) <= 1

C18_Witness ==
    /\ Len(threads) = 2
    /\ Len(queue) = 1
    /\ queue[1] = threads[2].put[1]
    /\ threads[1].pos = "ended"

\* C19: a worker puts one message and no more, and has put it when it ends: a "success"
\* message with the final state exactly when the try block returned, an "error" message
\* exactly when it raised; no exception leaves the thread.
C19_OneTerminalMessage ==
    \A t \in DOMAIN threads :
        LET th == threads[t] IN
            /\ th.pos # "escaped"
            /\ Len(th.put) <= 1
            /\ th.pos \in {"put", "ended"} <=> Len(th.put) = 1
            /\ Len(th.put) = 1 =>
                   /\ th.put[1].type \in {"success", "error"}
                   /\ th.put[1].type = "success" <=> th.result # None
                   /\ th.put[1].type = "error" <=> th.exc # NoException
                   /\ th.result # None <=> th.exc = NoException
                   /\ th.put[1].type = "success" => th.put[1].result = th.result[1]
                   /\ th.put[1].type = "error" => th.put[1].error = error_msg(th.exc)

C19_Witness ==
    \E t \in DOMAIN threads :
        /\ threads[t].pos = "ended"
        /\ threads[t].exc.type = "ValueError"
        /\ threads[t].put = <<ErrorMessage(threads[t].exc)>>

\* the wrapper call kept failing on a rate-limit condition until the retries ran out
KeptFailingOnRateLimit(es) ==
    /\ Len(es) = MAX_RETRIES + 1
    /\ \A k \in DOMAIN es : is_rate_limit(es[k])

\* C20 as stated: the error message a worker puts is the rate-limit guidance exactly when
\* the run failed because a wrapper call kept failing on a rate-limit condition until the
\* retries were exhausted, and the generic message for every other failure.
C20_Original ==
    \A t \in DOMAIN threads :
        LET th == threads[t] IN
            (Len(th.put) = 1 /\ th.put[1].type = "error") =>
                /\ th.put[1].error = RateLimitGuidance(th.exc.msg)
                       <=> KeptFailingOnRateLimit(th.errors)
                /\ th.put[1].error = GenericErrorMessage(th.exc.msg)
                       <=> ~KeptFailingOnRateLimit(th.errors)

\* the finished wrapper calls made from a site
CallsAt(site) == {i \in DOMAIN calls : calls[i].site = site}

\* C27: each site is called at most once; the planner's second call is made after its
\* first has returned and with the plan text in its prompt; a run that returns has made
\* two calls in the Plan stage, one in the Execute stage whatever the plan and the
\* research results are, and one in the Research and in the Validate stage unless that
\* stage short-circuited.
C27_WrapperCallsPerStage ==
    /\ \A site \in {"plan", "tasks", "research", "execute", "validate"} :
           Cardinality(CallsAt(site)) <= 1
    /\ llm.site = "tasks" =>
           /\ Called("plan") /\ CallAt("plan").outcome = "returned"
           /\ llm.prompt = ResearchTasksPrompt(CallAt("plan").text)
    /\ pc = "returned" =>
           /\ Cardinality(CallsAt("plan")) = 1
           /\ Cardinality(CallsAt("tasks")) = 1
           /\ \A i \in CallsAt("plan"), j \in CallsAt("tasks") : i < j
           /\ Cardinality(CallsAt("execute")) = 1
           /\ Cardinality(CallsAt("research")) =
                  IF result.value.research_tasks = "" THEN 0 ELSE 1
           /\ Cardinality(CallsAt("validate")) =
                  IF result.value.plan = "" /\ result.value.final_itinerary = ""
                  THEN 0 ELSE 1
           /\ wrapperCalls = Len(calls)

C27_Witness ==
    /\ pc = "returned"
    /\ externalCalls = Len(calls)
    /\ result.value.plan = "" /\ result.value.research_results = ""
    /\ Called("research") /\ Called("execute")

\* C28: the Validate stage's wrapper call is made with final_itinerary in its prompt when
\* final_itinerary is not empty, and with plan when final_itinerary is empty and plan is
\* not; in both cases the run makes that one call and returns "validation_completed"
\* with the call's text as validation.
C28_ValidatesItineraryElsePlan ==
    /\ llm.site = "validate" =>
           /\ state.final_itinerary # "" \/ state.plan # ""
           /\ llm.prompt =
                  ValidatorPrompt(IF state.final_itinerary # "" THEN state.final_itinerary
                                  ELSE state.plan, state.user_query)
    /\ (pc = "returned"
           /\ (result.value.final_itinerary # "" \/ result.value.plan # "")) =>
           /\ Cardinality(CallsAt("validate")) = 1
           /\ result.value.status = "validation_completed"
           /\ result.value.validation = CallAt("validate").text

C28_Witness ==
    /\ pc = "returned"
    /\ result.value.final_itinerary # "" /\ result.value.plan # ""
    /\ result.value.final_itinerary # result.value.plan
    /\ result.value.status = "validation_completed"
    /\ Called("validate")

\* C29 as stated: the "LLM Call Failed - All Retries Exhausted" event, whose text cites
\* MAX_RETRIES + 1 attempts, is logged only by a call that made MAX_RETRIES + 1 attempts.
C29_Original ==
    \A i \in DOMAIN logs :
        logs[i].operation = "LLM Call Failed - All Retries Exhausted" =>
            /\ calls # <<>>
            /\ logs[i].details = ExhaustedMessage(calls[Len(calls)].errors[
                                      Len(calls[Len(calls)].errors)])
            /\ calls[Len(calls)].attempts = MAX_RETRIES + 1

\* the events _call_llm logs
WrapperOperations ==
    {"LLM Call Started", "LLM Call", "LLM Call Succeeded After Retry",
     "Rate Limit Error (429)", "LLM Call Error", "Retrying LLM Call",
     "LLM Call Failed - All Retries Exhausted"}

\* the start event and the completion event of an agent's execute()
StartOperation(agent) ==
    IF agent = "Validator" THEN "Validation Started" ELSE "Execution Started"

CompletionOperation(agent) ==
    CASE agent = "Researcher" -> "Research Completed"
      [] agent = "Validator" -> "Validation Completed"
      [] OTHER -> "Execution Completed"

\* where an agent's event of an operation is in the log
EventsOf(agent, operation) ==
    {i \in DOMAIN logs : logs[i].agent = agent /\ logs[i].operation = operation}

\* C30: every wrapper event in the log comes after the start event of its stage, with
\* only events of that stage in between; a stage that has logged its completion event
\* has logged one start event before it, at least one wrapper event between the two, no
\* wrapper event of its own outside them and no event of another agent between them.
C30_StageEventsBracketCalls ==
    /\ \A i \in DOMAIN logs :
           logs[i].operation \in WrapperOperations =>
               \E s \in EventsOf(logs[i].agent, StartOperation(logs[i].agent)) :
                   /\ s < i
                   /\ \A k \in s..i : logs[k].agent = logs[i].agent
    /\ \A a \in Agents :
           \A c \in EventsOf(a, CompletionOperation(a)) :
               /\ Cardinality(EventsOf(a, StartOperation(a))) = 1
               /\ Cardinality(EventsOf(a, CompletionOperation(a))) = 1
               /\ \A s \in EventsOf(a, StartOperation(a)) :
                      /\ s < c
                      /\ \A k \in s..c : logs[k].agent = a
                      /\ \E k \in s..c : logs[k].operation \in WrapperOperations
                      /\ \A k \in DOMAIN logs :
                             (logs[k].agent = a /\ logs[k].operation \in WrapperOperations)
                                 => s < k /\ k < c

C30_Witness ==
    /\ pc = "returned"
    /\ \A a \in Agents : EventsOf(a, CompletionOperation(a)) # {}
    /\ \E i \in DOMAIN logs : logs[i].operation = "Retrying LLM Call"

\* the threads that have put their message
Putters == {t \in DOMAIN threads : threads[t].put # <<>>}

\* a thread's message has been put and a poll has taken it: the queue holds the messages
\* of the threads that put last
Drained(t) ==
    /\ t \in Putters
    /\ Cardinality({u \in Putters : u > t}) >= Len(queue)

\* how far a worker has come
Progress(pos) ==
    CASE pos = "started" -> 0
      [] pos \in {"returned", "raised"} -> 1
      [] pos = "put" -> 2
      [] OTHER -> 3

\* C21: with the threads scheduled and the script polling, every worker started is
\* eventually one whose message a poll has drained; the step that drains a message leaves
\* processing False; and no step takes a started worker back or away: it keeps its query
\* and only moves on, through the put, to its end.
C21_AcceptedTaskIsDrained ==
    /\ \A t \in 1..MaxSubmissions :
           (t \in DOMAIN threads) ~> (t \in DOMAIN threads /\ Drained(t))
    /\ [][Len(queue') < Len(queue) => ~session'.processing]_vars
    /\ [][\A t \in DOMAIN threads :
             /\ t \in DOMAIN threads'
             /\ threads'[t].query = threads[t].query
             /\ Progress(threads'[t].pos) >= Progress(threads[t].pos)
             /\ threads'[t].pos = "ended" => threads'[t].put # <<>>]_vars

C21_Witness ==
    \E t \in DOMAIN threads :
        /\ Drained(t)
        /\ threads[t].pos = "put"
        /\ ~session.processing
        /\ session.processing_query = None

\* what the script shows for a message taken off the queue
Shown(m) == IF m.type = "success" THEN FullResponse(m.result) ELSE m.error

\* C22: a worker's state belongs to the worker until it is put. A step that changes a
\* thread changes neither the session nor the script's position (it is the worker's own
\* step); what a thread was started with (its query, its copy of the conversation history)
\* never changes, whatever is appended to the session's history afterwards, and is the
\* session's history as it was when the thread was started; the result a worker gets is
\* the workflow's result for that query and that copy; once put, result and message are
\* no longer written; and the session gains an assistant message only in the step that
\* takes off the queue a message some worker has put, the text being that message's.
C22_WorkerOwnsItsState ==
    [][/\ \A t \in DOMAIN threads :
              /\ t \in DOMAIN threads'
              /\ threads'[t] # threads[t] => session' = session /\ script' = script
              /\ threads'[t].query = threads[t].query
              /\ threads'[t].conversation_history = threads[t].conversation_history
              /\ threads[t].put # <<>> =>
                     /\ threads'[t].result = threads[t].result
                     /\ threads'[t].put = threads[t].put
              /\ threads'[t].result # threads[t].result =>
                     /\ threads[t].pos = "started"
                     /\ threads'[t].result[1].user_query = threads[t].query
                     /\ threads'[t].result[1].conversation_history
                            = threads[t].conversation_history
       /\ \A t \in DOMAIN threads' \ DOMAIN threads :
              /\ threads'[t].conversation_history = session'.conversation_history
              /\ session'.conversation_history
                     = Append(session.conversation_history, Msg("user", threads'[t].query))
              /\ threads'[t].result = None /\ threads'[t].put = <<>>
       /\ (\E i \in DOMAIN session'.messages :
               /\ i > Len(session.messages)
               /\ session'.messages[i].role = "assistant") =>
              /\ queue # <<>> /\ queue' = Tail(queue)
              /\ \E t \in DOMAIN threads : Head(queue) \in {threads[t].put[k] : k \in DOMAIN threads[t].put}
              /\ session'.messages = Append(session.messages, Msg("assistant", Shown(Head(queue))))
              /\ threads' = threads
      ]_vars

\* a worker that has put its message and not yet ended, its copy of the history left
\* behind by the session's: the answer and a further user message have been appended
C22_Witness ==
    \E t \in DOMAIN threads :
        /\ threads[t].pos = "put"
        /\ threads[t].result # None
        /\ Len(session.conversation_history) >= Len(threads[t].conversation_history) + 2
        /\ session.conversation_history[Len(session.conversation_history)].role = "user"
        /\ threads[t].result[1].conversation_history = threads[t].conversation_history

\* the texts the wrapper calls of the run returned
TextsReturned ==
    [plan |-> TextAt("plan"), tasks |-> TextAt("tasks"), research |-> TextAt("research"),
     execute |-> TextAt("execute"), validate |-> TextAt("validate")]

\* the state the planner leaves, as the texts of its calls give it
AfterPlanner ==
    LET s0 == InitialState(state.user_query, state.conversation_history)
    IN  Merge(s0, planner_node_update(s0, PlannerResult(TextAt("plan"), TextAt("tasks"))))

\* C23: with clear_logs called at any point of a run, what the run does is given by the
\* query, the history and the outcomes of the external calls alone: when it returns, all
\* four stages ran, the result is the state computed from the texts returned, and the
\* Research and Validate calls were made exactly when those texts ask for them; when it
\* raises, the stages ran up to the failing call's and the error is the one of that
\* call's last attempt; and the external calls are the attempts of the wrapper calls.
C23_LogDoesNotInfluence ==
    /\ pc = "returned" =>
           /\ stagesRun = StageOrder
           /\ result = Returned(WorkflowResult(state.user_query, state.conversation_history,
                                               TextsReturned))
           /\ Called("research") <=> ~ResearcherSkips(AfterPlanner)
           /\ Called("validate") <=> result.value.status = "validation_completed"
    /\ pc = "raised" =>
           LET c == calls[Len(calls)] IN
               /\ FailedCall(c.errors)
               /\ result = Raised(RaisedException(c.errors[Len(c.errors)]))
               /\ \E k \in DOMAIN StageOrder :
                      /\ StageOrder[k] = StageOf(c.site)
                      /\ stagesRun = SubSeq(StageOrder, 1, k)
    /\ pc \in {"returned", "raised"} =>
           /\ wrapperCalls = Len(calls)
           /\ externalCalls = SumAttempts(calls)
           /\ \A i \in DOMAIN calls :
                  calls[i].attempts = Len(calls[i].errors)
                      + (IF calls[i].outcome = "returned" THEN 1 ELSE 0)

\* a run that returned with the log cleared on its way: the log holds the end of the
\* run's entries and not the first
C23_Witness ==
    /\ pc = "returned"
    /\ Called("research") /\ Called("validate")
    /\ logs # <<>>
    /\ logs[1].operation # "Workflow Started"
    /\ logs[Len(logs)].operation = "Workflow Completed"

IsPrefixOf(a, b) == Len(a) <= Len(b) /\ SubSeq(b, 1, Len(a)) = a

\* C24: every step either leaves the log as a prefix of the new log or empties it, and
\* the step that empties it is clear_logs, which changes nothing else; log_operation on
\* the log of any state gives that log with the one new entry after it.
C24_LogAppendOnly ==
    [][/\ IsPrefixOf(logs, logs') \/ (logs' = <<>> /\ pc' = pc /\ state' = state
                                          /\ result' = result /\ llm' = llm)
       /\ LET e == LogEntry("Planner", "Planning Started", "d", "info", "none")
              l == log_operation(logs', e.agent, e.operation, e.details, e.status,
                                 e.duration)
          IN  /\ Len(l) = Len(logs') + 1
              /\ IsPrefixOf(logs', l)
              /\ l[Len(l)] = e
              /\ clear_logs(l) = <<>>
      ]_vars

\* a log cleared and grown again since
C24_Witness ==
    /\ Len(logs) >= 2
    /\ logs[1].operation # "Workflow Started"
    /\ pc \notin {"returned", "raised"}

RECURSIVE SumOver(_, _)
SumOver(d, keys) ==
    IF keys = {} THEN 0
    ELSE LET k == CHOOSE k \in keys : TRUE IN d[k] + SumOver(d, keys \ {k})

\* sum(d.values())
SumOfCounts(d) == SumOver(d, DOMAIN d)

\* C25 as stated: every result of get_log_summary has total equal to the sum of the
\* by_agent counts and to the sum of the by_status counts, also when the worker appends
\* entries while the summary is computed.
C25_Original ==
    summary.out # None =>
        /\ summary.out[1].total = SumOfCounts(summary.out[1].by_agent)
        /\ summary.out[1].total = SumOfCounts(summary.out[1].by_status)

\* C26 as stated: get_logs(agent=a) gives exactly the entries whose agent is a, in the
\* order they were appended, and get_logs(limit=n) gives the n most recently appended
\* entries (all of them when there are fewer than n), for every n >= 0.
C26_Original ==
    fetched # None =>
        LET call == fetched[1] IN
            /\ (call.agent # None /\ call.limit = None) =>
                   call.logs = OfAgent(call.of, call.agent[1])
            /\ (call.agent = None /\ call.limit # None) =>
                   /\ Len(call.logs) = Min(call.limit[1], Len(call.of))
                   /\ call.logs = SubSeq(call.of, Len(call.of) - Len(call.logs) + 1,
                                         Len(call.of))

\* the agents of the four stages
StageAgents == {"Planner", "Researcher", "Executor", "Validator"}

\* the events of the stages in a log
StageEvents(log) == SelectSeq(log, LAMBDA entry : entry.agent \in StageAgents)

\* user queries of one length and different content
TwinQueries == {"rome", "oslo"}

\* C31 as stated: the events a stage logs are the same for two user queries of the same
\* length: what the Plan stage logs as it starts (its own events and the start of its
\* first wrapper call) is what it would log in the same state for any other query of
\* that length.
C31_Original ==
    [][(pc = "planner" /\ llm.site = "none" /\ llm'.site = "plan") =>
           \A q \in TwinQueries :
               Len(q) = Len(state.user_query) =>
                   LET twin == [state EXCEPT !.user_query = q]
                   IN  StageEvents(SubSeq(logs', Len(logs) + 1, Len(logs')))
                         = StageEvents(LogCallStarted(LogPlanningStarted(<<>>, twin), "Planner",
                               PlannerPrompt(PlannerContext(twin.conversation_history),
                                             twin.user_query)))
      ]_vars

\* the submissions that started a worker, in order
AcceptedSubmissions(subs) == SelectSeq(subs, LAMBDA sub : sub.accepted)

\* C32: the step of a rejected submission leaves the threads, the queue and the
\* processing fields of the session as they are and tells the caller to wait; and the
\* workers are at every moment those of the accepted submissions, one each with its
\* prompt, so no step ever runs the prompt of a rejected one.
C32_RejectedSubmissionFrame ==
    [][/\ (Len(submitted') > Len(submitted) /\ ~submitted'[Len(submitted')].accepted) =>
              /\ threads' = threads
              /\ queue' = queue
              /\ session'.processing = session.processing
              /\ session'.processing_query = session.processing_query
              /\ session'.processing_thread = session.processing_thread
              /\ session'.processing_result = session.processing_result
              /\ session'.processing_error = session.processing_error
              /\ notice' = "wait"
       /\ Len(threads') = Len(AcceptedSubmissions(submitted'))
       /\ \A t \in DOMAIN threads' :
              threads'[t].query = AcceptedSubmissions(submitted')[t].prompt
      ]_vars

\* a submission was rejected, a later one accepted, and every worker has ended: two
\* workers for three submissions
C32_Witness ==
    /\ \E i, j \in DOMAIN submitted :
           i < j /\ ~submitted[i].accepted /\ submitted[j].accepted
    /\ Len(threads) < Len(submitted)
    /\ \A t \in DOMAIN threads : threads[t].pos = "ended"
    /\ queue = <<>>

\* C33 as stated: a submission made when the message of every task started so far has
\* been drained by a poll is accepted and starts a new worker.
C33_Original ==
    [][(/\ Len(submitted') > Len(submitted)
        /\ threads # <<>>
        /\ \A t \in DOMAIN threads : Drained(t)) =>
           /\ submitted'[Len(submitted')].accepted
           /\ Len(threads') = Len(threads) + 1
           /\ notice' = "started"
      ]_vars

\* C34 as stated: the step that takes a message off the queue adds exactly one assistant
\* message, the one shown for that message, to messages and to conversation_history.
C34_Original ==
    [][Len(queue') < Len(queue) =>
           /\ session'.messages
                  = Append(session.messages, Msg("assistant", Shown(Head(queue))))
           /\ session'.conversation_history
                  = Append(session.conversation_history,
                           Msg("assistant", Shown(Head(queue))))
      ]_vars

\* C35: processing is True exactly when some worker started has not had its message
\* drained (it is running, or its message waits in the queue), and such a worker is then
\* the one the session stores.
C35_ProcessingWhileOutstanding ==
    /\ session.processing <=> \E t \in DOMAIN threads : ~Drained(t)
    /\ \A t \in DOMAIN threads : ~Drained(t) => t = session.processing_thread

\* a worker's message waits in the queue and processing is still True
C35_Witness ==
    /\ session.processing
    /\ queue # <<>>
    /\ \E t \in DOMAIN threads : threads[t].pos = "ended" /\ ~Drained(t)
    /\ \E t \in DOMAIN threads : Drained(t)

\* the last attempt's message names the rate limit the way the raise statement tests it
NamesRateLimit(msg) == Contains("429", msg) \/ Contains("resource exhausted", Lower(msg))

\* C36: a _call_llm that raised RateLimitError made exactly MAX_RETRIES + 1 attempts, all
\* failed, and a _call_llm that raised did so with RateLimitError exactly when the message
\* of its last attempt contains "429" or, in any case, "resource exhausted", whatever the
\* messages of its earlier attempts were.
C36_RateLimitErrorFromLastAttempt ==
    \A i \in DOMAIN calls :
        calls[i].outcome = "raised" =>
            LET c == calls[i]
                last == c.errors[Len(c.errors)]
            IN  /\ c.exc.type = "RateLimitError" <=> NamesRateLimit(last)
                /\ c.exc.type = "RateLimitError" =>
                       /\ c.attempts = MAX_RETRIES + 1
                       /\ Len(c.errors) = MAX_RETRIES + 1

\* RateLimitError raised after two attempts that failed for other reasons
C36_Witness ==
    \E i \in DOMAIN calls :
        /\ calls[i].outcome = "raised"
        /\ calls[i].exc.type = "RateLimitError"
        /\ calls[i].errors[1] = "503 Service Unavailable"
        /\ calls[i].errors[2] = "Timeout"
        /\ calls[i].errors[3] = "Resource Exhausted"

\* C37: every _call_llm that has ended, however it ended, made between 1 and
\* MAX_RETRIES + 1 attempts and slept once less than it attempted; while a call runs,
\* every failed attempt so far has been followed by its sleep and a further attempt is
\* still to come.
C37_SleepsBetweenAttempts ==
    /\ \A i \in DOMAIN calls :
           /\ calls[i].attempts \in 1..(MAX_RETRIES + 1)
           /\ Len(calls[i].sleeps) = calls[i].attempts - 1
           /\ Len(calls[i].errors)
                  = calls[i].attempts - (IF calls[i].outcome = "returned" THEN 1 ELSE 0)
    /\ llm.site # "none" =>
           /\ attempts \in 0..MAX_RETRIES
           /\ Len(sleeps) = attempts
           /\ Len(errs) = attempts

\* a call that succeeded on the last attempt allowed, after MAX_RETRIES failures and
\* MAX_RETRIES sleeps
C37_Witness ==
    \E i \in DOMAIN calls :
        /\ calls[i].attempts = MAX_RETRIES + 1
        /\ Len(calls[i].sleeps) = MAX_RETRIES
        /\ calls[i].outcome = "returned"

\* the statuses a stage other than the last one leaves, each with the stage that follows
\* it and overwrites it
OverwrittenBy ==
    [initialized |-> "planner", plan_created |-> "researcher", no_tasks |-> "executor",
     research_completed |-> "executor", execution_completed |-> "validator"]

\* C38: a state returned by process_query has status "validation_completed" or
\* "no_content"; each of the statuses "initialized", "plan_created", "no_tasks",
\* "research_completed" and "execution_completed" is in the state only while the stage
\* that overwrites it is still to run or is running, or after that stage raised.
C38_ReturnedStatusIsFinal ==
    /\ pc = "returned" =>
           result.value.status \in {"validation_completed", "no_content"}
    /\ \A s \in DOMAIN OverwrittenBy :
           (pc \notin {"idle", "direct"} /\ state.status = s) =>
               \/ pc = OverwrittenBy[s]
               \/ pc = "raised" /\ stagesRun[Len(stagesRun)] = OverwrittenBy[s]

\* a run that returned "no_content" after its Research stage had left "no_tasks" and
\* its Execute stage "execution_completed"
C38_Witness ==
    /\ pc = "returned"
    /\ result.value.status = "no_content"
    /\ ResearchShortCircuited
    /\ Called("execute")
    /\ stagesRun = StageOrder

\* C39: a returned state has status "no_content" exactly when its plan and its
\* final_itinerary are both empty, and its validation is then "No content to validate."
\* and no call was made for it, whatever the external service returned in the earlier
\* stages; the Validate stage's call is only ever made on content that is not empty.
C39_NoContentIffNothingToValidate ==
    /\ pc = "returned" =>
           LET final_state == result.value
               empty == final_state.plan = "" /\ final_state.final_itinerary = ""
           IN  /\ final_state.status = "no_content" <=> empty
               /\ empty => /\ final_state.validation = "No content to validate."
                           /\ ~Called("validate")
               /\ ~empty => /\ Called("validate")
                            /\ final_state.validation = TextAt("validate")
    /\ llm.site = "validate" => state.plan # "" \/ state.final_itinerary # ""

\* a run whose external calls all returned, the planner's and the executor's with empty
\* text, and that returned "no_content" after the Research stage made its call
C39_Witness ==
    /\ pc = "returned"
    /\ result.value.status = "no_content"
    /\ result.value.validation = "No content to validate."
    /\ Called("research") /\ Called("execute")
    /\ TextAt("plan") = "" /\ TextAt("execute") = ""

\* the places of a run where _call_llm is called: two in the planner, one in each other
\* stage
WrapperCallSites == {"plan", "tasks", "research", "execute", "validate"}

MaxWrapperCalls == Cardinality(WrapperCallSites)

\* C40: a process_query that was called ends, by returning a state or by raising,
\* provided each external call returns or raises; at every point it has made at most 5
\* wrapper invocations and at most 5 * (MAX_RETRIES + 1) external-call attempts, and no
\* more than MAX_RETRIES + 1 attempts for each wrapper invocation.
C40_ProcessQueryTerminates ==
    /\ [](/\ wrapperCalls <= MaxWrapperCalls
          /\ externalCalls <= MaxWrapperCalls * (MAX_RETRIES + 1)
          /\ externalCalls <= wrapperCalls * (MAX_RETRIES + 1))
    /\ (pc \notin {"idle", "returned", "raised"}) ~> (pc \in {"returned", "raised"})

\* a run that ended after 5 wrapper invocations of MAX_RETRIES + 1 attempts each
C40_Witness ==
    /\ pc \in {"returned", "raised"}
    /\ wrapperCalls = MaxWrapperCalls
    /\ externalCalls = MaxWrapperCalls * (MAX_RETRIES + 1)

====
